---------------------------- MODULE Spec2Model ----------------------------
(***************************************************************************)
(* The stratified dataset splitter of scripts/split_dataset.py as a state  *)
(* machine.  One run of the script is one call of stratified_split_dataset *)
(* from the entry point; its steps are the numbered STEP blocks of the     *)
(* function, the copy phase is one step per copied file.  The file system  *)
(* (source directories, the six destination directories, the metadata      *)
(* file) survives from one process to the next; everything else is the     *)
(* memory of one process.                                                  *)
(***************************************************************************)
EXTENDS Integers, Sequences, FiniteSets, TLC

(***************************************************************************)
(* Bounds of the model.                                                    *)
(***************************************************************************)
\* largest number of recognised images in data/raw/fake
MaxFake == 8
\* largest number of recognised images in data/raw/real
MaxReal == 6
\* number of processes (runs of the script) in one behaviour
MaxRuns == 2
\* request threads of the web server
MaxThreads == 2
\* uploads the web server accepts in one behaviour
MaxUploads == 1
\* largest batch of a bulk copy or download loop
MaxItems == 4
\* largest target_count of download()
MaxTarget == 3
\* probabilities are multiples of 1/ProbSteps
ProbSteps == 20

(***************************************************************************)
(* CONFIGURATION (split_dataset.py lines 24-48).                           *)
(***************************************************************************)
RANDOM_SEED == 42
SEED_SIZE_TOTAL == 8050
VALIDATION_SIZE_TOTAL == 700
NUM_QUARTILES == 4
TOTAL_FAKE_IMAGES == 80001

FAKE_DIR == <<"raw", "fake">>
REAL_DIR == <<"raw", "real">>

\* ['seed', 'pool', 'validation'] x ['real', 'fake'], as Path(OUTPUT_DIR)/split/label
Splits == {"seed", "pool", "validation"}
Labels == {"real", "fake"}
DestDirs == Splits \X Labels
Dirs == {FAKE_DIR, REAL_DIR} \cup DestDirs

\* The module-level configuration as one record.
ProgramConfig ==
    [seed_size |-> SEED_SIZE_TOTAL,
     validation_size |-> VALIDATION_SIZE_TOTAL,
     total_fake |-> TOTAL_FAKE_IMAGES]

\* The same script configured for a small corpus: 9 seed (odd: 4 real and 5
\* fake, one per quartile and one more from the last), 2 validation, and an
\* expected fake count that a small source directory can match.
SmallConfig == [seed_size |-> 9, validation_size |-> 2, total_fake |-> 7]

\* The configuration of the worked example: 8 seed, 4 validation, 40 fakes.
ExampleConfig == [seed_size |-> 8, validation_size |-> 4, total_fake |-> 40]
ExampleInput == [fake |-> 40, real |-> 40]

\* QUARTILE_SIZE = TOTAL_FAKE_IMAGES // NUM_QUARTILES
QUARTILE_SIZE(c) == c.total_fake \div NUM_QUARTILES

\* FAKE_QUARTILES with four bands of QUARTILE_SIZE, the last one not stretched
\* to TOTAL_FAKE_IMAGES
InitialFakeQuartilesEven(c) ==
    [i \in 1..NUM_QUARTILES |-> <<(i - 1) * QUARTILE_SIZE(c), i * QUARTILE_SIZE(c)>>]

\* The module-level table FAKE_QUARTILES: (0, Q), (Q, 2Q), (2Q, 3Q), (3Q, TOTAL),
\* as <<start, end>> with Python's half-open, 0-based indices.
InitialFakeQuartiles(c) ==
    [i \in 1..NUM_QUARTILES |->
        <<(i - 1) * QUARTILE_SIZE(c),
          IF i < NUM_QUARTILES THEN i * QUARTILE_SIZE(c) ELSE c.total_fake>>]

(***************************************************************************)
(* File names and the file system.                                         *)
(* A name is a fixed-width numbered stem and an extension; a directory     *)
(* entry is a name with the file's content.                                *)
(***************************************************************************)
Extensions == {"jpeg", "jpg", "png", "txt"}

\* position of an extension in string order ("jpeg" < "jpg" < "png" < "txt")
ExtRank(e) == CASE e = "jpeg" -> 1 [] e = "jpg" -> 2 [] e = "png" -> 3 [] OTHER -> 4

\* a < b as file-name strings: stem first, then extension
NameLess(a, b) ==
    \/ a.stem < b.stem
    \/ a.stem = b.stem /\ ExtRank(a.ext) < ExtRank(b.ext)

\* the i-th image of a corpus; the extension varies with the number
ImageName(i) ==
    [stem |-> i, ext |-> CASE i % 3 = 0 -> "png" [] i % 3 = 1 -> "jpg" [] OTHER -> "jpeg"]

\* a file that is no recognised image
JunkName == [stem |-> 0, ext |-> "txt"]

Max(a, b) == IF a >= b THEN a ELSE b
Min(a, b) == IF a <= b THEN a ELSE b

Names(entries) == {e.name : e \in entries}

\* Python slice s[a:b] of a 1-based sequence, a and b 0-based and non-negative
Slice(s, a, b) ==
    LET lo == Min(a, Len(s))
        hi == Min(Max(b, lo), Len(s))
    IN  [k \in 1..(hi - lo) |-> s[lo + k]]

\* s[a:]
SliceFrom(s, a) == Slice(s, a, Len(s))

Range(s) == {s[k] : k \in 1..Len(s)}

RECURSIVE SumOver(_, _)
\* sum of f[k] over k in the finite set S
SumOver(f, S) ==
    IF S = {} THEN 0
    ELSE LET k == CHOOSE x \in S : TRUE IN f[k] + SumOver(f, S \ {k})

(***************************************************************************)
(* get_sorted_images (lines 66-80).                                        *)
(***************************************************************************)
\* The orders in which a directory scan may list its entries.
ListingOrders == {"ascending", "descending", "rotated"}

RECURSIVE Insert(_, _)
\* insert path p into the sequence s sorted by name
Insert(p, s) ==
    IF s = << >> THEN <<p>>
    ELSE IF NameLess(p.name, s[1].name) THEN <<p>> \o s
    ELSE <<s[1]>> \o Insert(p, Tail(s))

RECURSIVE SortByName(_)
\* sorted(images, key=lambda x: x.name)
SortByName(s) ==
    IF s = << >> THEN << >> ELSE Insert(s[1], SortByName(Tail(s)))

RECURSIVE Descending(_)
Descending(S) ==
    IF S = {} THEN << >>
    ELSE LET p == CHOOSE x \in S : \A y \in S : ~NameLess(x.name, y.name)
         IN  <<p>> \o Descending(S \ {p})

Reverse(s) == [k \in 1..Len(s) |-> s[Len(s) + 1 - k]]

\* directory.glob('*.' + ext): the paths of the entries of directory d whose
\* name ends in ext, in the order the scan yields them; a missing directory
\* yields nothing.
Glob(disk, present, d, ext, order) ==
    LET hits == IF d \in present
                THEN {[dir |-> d, name |-> e.name] : e \in {x \in disk[d] : x.name.ext = ext}}
                ELSE {}
        desc == Descending(hits)
    IN  CASE order = "descending" -> desc
          [] order = "ascending" -> Reverse(desc)
          [] OTHER -> IF desc = << >> THEN desc ELSE Tail(desc) \o <<Head(desc)>>

\* GetSortedImages without the sort: the scans' own order
GetSortedImagesUnsorted(disk, present, d, order) ==
    Glob(disk, present, d, "jpg", order)
    \o Glob(disk, present, d, "jpeg", order)
    \o Glob(disk, present, d, "png", order)

\* get_sorted_images(directory)
GetSortedImages(disk, present, d, order) ==
    SortByName(Glob(disk, present, d, "jpg", order)
               \o Glob(disk, present, d, "jpeg", order)
               \o Glob(disk, present, d, "png", order))

(***************************************************************************)
(* The seeded generator behind random.seed and random.shuffle.  The        *)
(* generator is a deterministic function of its state; a linear            *)
(* congruential step stands for the library's generator.                   *)
(***************************************************************************)
NextRandom(s) == (s * 75 + 74) % 65537

\* _randbelow(n): a number in 0..n-1 and the generator's next state
RandBelow(n, s) == [value |-> NextRandom(s) % n, state |-> NextRandom(s)]

Swap(s, i, j) == [s EXCEPT ![i] = s[j], ![j] = s[i]]

RECURSIVE ShuffleFrom(_, _, _)
\* for i in reversed(range(1, len(x))): j = randbelow(i + 1); x[i], x[j] = x[j], x[i]
\* (i is 1-based here: positions i = Len(x) down to 2, j in 1..i)
ShuffleFrom(x, i, s) ==
    IF i < 2 THEN [list |-> x, state |-> s]
    ELSE LET r == RandBelow(i, s)
         IN  ShuffleFrom(Swap(x, i, r.value + 1), i - 1, r.state)

\* random.shuffle(x) with the generator in state s
Shuffle(x, s) == ShuffleFrom(x, Len(x), s)


(***************************************************************************)
(* State.                                                                  *)
(***************************************************************************)
VARIABLES
    cfg,            \* the module-level configuration of the script
    disk,           \* directory -> its entries [name, data]
    present,        \* the directories that exist
    meta,           \* data/split_metadata.json
    run,            \* number of the current process
    pc,             \* position of the current run
    outcome,        \* what the entry point reported for a run that ended
    rng,            \* state of the random generator
    FAKE_QUARTILES, \* the module-level quartile table
    fake_images, real_images,
    counts,         \* the split sizes of STEP 2
    q_idx,          \* quartile the STEP 4 loop is at (1-based)
    seed_fakes, val_fakes, pool_fakes, quartile_stats,
    seed_reals, val_reals, pool_reals,
    batch, pos,     \* copy_files call of STEP 6 and files it has copied
    verification,   \* the re-scan of STEP 7
    warned,         \* STEP 7 printed the missing-images warning
    stratification, \* what STEPs 8 and 9 counted
    start_disk,     \* history: the disk when the current run started
    opens,          \* history: times the current run opened the metadata file
    writes,         \* history: metadata files completed by the current run
    prev            \* history: the split assignment of the previous run

diskVars == <<disk, present, meta>>
loadVars == <<rng, fake_images, real_images>>
fakeVars == <<q_idx, seed_fakes, val_fakes, pool_fakes, quartile_stats>>
realVars == <<seed_reals, val_reals, pool_reals>>
copyVars == <<batch, pos>>
checkVars == <<verification, warned, stratification>>
histVars == <<start_disk, opens, writes, prev>>

\* everything the splitter reads or writes
splitterVars == <<cfg, diskVars, run, pc, outcome, FAKE_QUARTILES, loadVars, counts,
                  fakeVars, realVars, copyVars, checkVars, histVars>>

(***************************************************************************)
(* State of the other programs of the repository.  Each specification      *)
(* below runs one program; the variables of the others keep the values of  *)
(* a program that was never started.                                       *)
(***************************************************************************)
VARIABLES
    program,        \* app.py, evaluate_model.py or test_prediction.py
    model_file,     \* models/trained_models/baseline_best.keras on disk
    MODEL,          \* the module-level MODEL of app.py
    loads,          \* history: completed keras.models.load_model calls
    main_pc,        \* position of the program's main thread
    model_found,    \* what the start-up check of the model path found
    reported,       \* what the main thread printed about the model
    exit_code,      \* exit status of a script that ended
    th,             \* request thread -> its position and locals
    uploads,        \* the files in the upload folder
    clock           \* upload time stamps handed out so far

appVars == <<program, model_file, MODEL, loads, main_pc, model_found, reported,
             exit_code, th, uploads, clock>>

VARIABLES
    script,         \* the bulk function that runs
    items,          \* the batch: what each item is
    done_items,     \* items the loop is past (its index i or idx)
    successful,     \* the loop's success counter (successful / count)
    attempted,      \* history: items the loop tried
    failed,         \* history: items whose copy or download raised
    logged,         \* failures the loop printed
    dest_files,     \* files in the destination directories
    result,         \* what the function returned or reported
    bulk_pc         \* position of the bulk function

bulkVars == <<script, items, done_items, successful, attempted, failed, logged,
              dest_files, result, bulk_pc>>

VARIABLES
    target_count, max_attempts,  \* arguments of download()
    backoff,                     \* its backoff argument, in seconds
    saved, attempts, idx,        \* its locals
    waited,                      \* the last back-off wait, in seconds
    returned,                    \* the value download() returned
    dl_pc                        \* position of download()

downloadVars == <<target_count, max_attempts, backoff, saved, attempts, idx, waited,
                  returned, dl_pc>>

VARIABLES
    prediction,       \* the model's output for one image, in steps of 1/ProbSteps
    api_result,       \* what predict_image of app.py returned for it
    verdict,          \* what test_prediction.py printed for it
    predicted_class   \* the class evaluate_model.py assigned to it

predictVars == <<prediction, api_result, verdict, predicted_class>>

\* the variables a splitter step leaves alone
notSplitter == <<appVars, bulkVars, downloadVars, predictVars>>

vars == <<splitterVars, appVars, bulkVars, downloadVars, predictVars>>

(***************************************************************************)
(* The states a process starts in.                                         *)
(***************************************************************************)
\* configuration and numbers of recognised fake and real images
Scenarios ==
    ({SmallConfig} \X (0..MaxFake) \X (0..MaxReal))
    \cup ({ProgramConfig} \X (0..MaxFake) \X {1, MaxReal})

\* the worked example: 40 real and 40 fake images, 8 seed, 4 validation
ExampleScenarios == {<<ExampleConfig, ExampleInput.fake, ExampleInput.real>>}

\* what else the directories hold when the script starts: nothing, a file in
\* each source directory that is no image, or the output of an earlier run
Variations == {"clean", "junk", "stale"}

\* content of the i-th image of a class: no two source images are alike
Content(label, i) == IF label = "fake" THEN 2 * i + 1 ELSE 2 * i

\* n numbered images of a class, and with junk a file that is no image
Corpus(label, n, junk) ==
    {[name |-> ImageName(i), data |-> Content(label, i)] : i \in 1..n}
    \cup (IF junk THEN {[name |-> JunkName, data |-> 0]} ELSE {})

\* what an earlier run on an older corpus left in data/pool/fake
StaleEntry == [name |-> ImageName(1), data |-> 0]

NoCounts ==
    [seed_real_count |-> 0, seed_fake_count |-> 0, seed_fake_per_quartile |-> 0,
     val_real_count |-> 0, val_fake_count |-> 0, val_fake_per_quartile |-> 0]

NoVerification == [s \in Splits |-> [real |-> 0, fake |-> 0, total |-> 0]]

\* the memory of a process that has just started
FreshMemory ==
    /\ pc = "start"
    /\ outcome = "running"
    /\ rng = 0
    /\ FAKE_QUARTILES = InitialFakeQuartiles(cfg)
    /\ fake_images = << >>
    /\ real_images = << >>
    /\ counts = NoCounts
    /\ q_idx = 1
    /\ seed_fakes = << >>
    /\ val_fakes = << >>
    /\ pool_fakes = << >>
    /\ quartile_stats = << >>
    /\ seed_reals = << >>
    /\ val_reals = << >>
    /\ pool_reals = << >>
    /\ batch = 1
    /\ pos = 0
    /\ verification = NoVerification
    /\ warned = FALSE
    /\ stratification = [seed |-> << >>, validation |-> << >>]
    /\ opens = 0
    /\ writes = 0

\* the first process starts: scenario sc, variation v, source directories
\* in missing do not exist
Start(sc, v, missing) ==
    /\ cfg = sc[1]
    /\ disk = [d \in Dirs |->
                CASE d = FAKE_DIR -> Corpus("fake", sc[2], v = "junk")
                  [] d = REAL_DIR -> Corpus("real", sc[3], v = "junk")
                  [] d = <<"pool", "fake">> -> IF v = "stale" THEN {StaleEntry} ELSE {}
                  [] OTHER -> {}]
    /\ \A d \in missing : disk[d] = {}
    /\ present = ({FAKE_DIR, REAL_DIR} \ missing)
                 \cup (IF v = "stale" THEN DestDirs ELSE {})
    /\ meta = [state |-> IF v = "stale" THEN "stale" ELSE "absent", content |-> << >>]
    /\ run = 1
    /\ FreshMemory
    /\ start_disk = disk
    /\ prev = << >>

\* the value of a result variable while the function has not returned
NotReturned == 0 - 1

\* the request threads of the web server
Threads == 1..MaxThreads

NoResponse == [status |-> 0, body |-> "none"]

\* a request thread between two requests
IdleThread == [pc |-> "idle", route |-> "none", path |-> 0, resp |-> NoResponse]

\* app.py and the two model scripts were never started
AppIdle ==
    /\ program = "none"
    /\ model_file = "missing"
    /\ MODEL = "None"
    /\ loads = 0
    /\ main_pc = "off"
    /\ model_found = "unchecked"
    /\ reported = "nothing"
    /\ exit_code = 0
    /\ th = [t \in Threads |-> IdleThread]
    /\ uploads = {}
    /\ clock = 0

\* no bulk function was started
BulkIdle ==
    /\ script = "none"
    /\ items = << >>
    /\ done_items = 0
    /\ successful = 0
    /\ attempted = 0
    /\ failed = 0
    /\ logged = 0
    /\ dest_files = 0
    /\ result = NotReturned
    /\ bulk_pc = "off"

\* download() was never called
DownloadIdle ==
    /\ target_count = 0
    /\ max_attempts = 0
    /\ backoff = 0
    /\ saved = 0
    /\ attempts = 0
    /\ idx = 0
    /\ waited = 0
    /\ returned = NotReturned
    /\ dl_pc = "off"

\* predict_image has returned nothing yet
NoResult ==
    [label |-> "none", confidence |-> 0, fake_prob |-> 0, real_prob |-> 0,
     raw_prediction |-> 0]

\* test_prediction.py has printed no verdict yet
NoVerdict == [verdict |-> "none", confidence |-> 0]

\* no class assigned yet
NoClass == 0 - 1

\* no image was put to the model
PredictIdle ==
    /\ prediction = 0
    /\ api_result = NoResult
    /\ verdict = NoVerdict
    /\ predicted_class = NoClass

Init ==
    /\ \E sc \in Scenarios, v \in Variations, missing \in SUBSET {FAKE_DIR, REAL_DIR} :
            Start(sc, v, missing)
    /\ AppIdle /\ BulkIdle /\ DownloadIdle /\ PredictIdle

InitExample ==
    /\ \E sc \in ExampleScenarios : Start(sc, "clean", {})
    /\ AppIdle /\ BulkIdle /\ DownloadIdle /\ PredictIdle

(***************************************************************************)
(* STEP 1: load images (lines 106-125).                                    *)
(***************************************************************************)
\* a seed that differs from one process to the next
SeededPerRun == RANDOM_SEED + run

\* random.seed(RANDOM_SEED): the generator's state after seeding
Seeded == RANDOM_SEED

\* NoImagesFound with "and" for "or"
NoImagesFoundBoth(fakes, reals) == Len(fakes) = 0 /\ Len(reals) = 0

\* the condition of line 124
NoImagesFound(fakes, reals) == Len(fakes) = 0 \/ Len(reals) = 0

\* Both scans, the seeding, and the check of line 124: an empty list raises
\* ValueError, which the entry point (lines 444-448) reports.
LoadImages ==
    /\ pc = "start"
    /\ \E fake_order \in ListingOrders, real_order \in ListingOrders :
        LET fakes == GetSortedImages(disk, present, FAKE_DIR, fake_order)
            reals == GetSortedImages(disk, present, REAL_DIR, real_order)
        IN  /\ rng' = Seeded
            /\ fake_images' = fakes
            /\ real_images' = reals
            /\ IF NoImagesFound(fakes, reals)
               THEN pc' = "aborted" /\ outcome' = "ValueError"
               ELSE pc' = "quartiles" /\ outcome' = outcome
    /\ UNCHANGED <<notSplitter, cfg, diskVars, run, FAKE_QUARTILES, counts, fakeVars, realVars,
                   copyVars, checkVars, histVars>>

(***************************************************************************)
(* Quartile boundaries (lines 127-139).                                    *)
(***************************************************************************)
\* RecalculatedQuartiles with the last band ended like the others
RecalculatedQuartilesNoRemainder(n) ==
    LET actual_quartile_size == n \div NUM_QUARTILES
    IN  [i \in 1..NUM_QUARTILES |->
            <<(i - 1) * actual_quartile_size, i * actual_quartile_size>>]

\* the table recalculated for n fake images
RecalculatedQuartiles(n) ==
    LET actual_quartile_size == n \div NUM_QUARTILES
    IN  [i \in 1..NUM_QUARTILES |->
            <<(i - 1) * actual_quartile_size,
              IF i - 1 < NUM_QUARTILES - 1 THEN i * actual_quartile_size ELSE n>>]

AdjustQuartiles ==
    /\ pc = "quartiles"
    /\ FAKE_QUARTILES' = IF Len(fake_images) # cfg.total_fake
                         THEN RecalculatedQuartiles(Len(fake_images))
                         ELSE FAKE_QUARTILES
    /\ pc' = "sizes"
    /\ UNCHANGED <<notSplitter, cfg, diskVars, run, outcome, loadVars, counts, fakeVars, realVars,
                   copyVars, checkVars, histVars>>

(***************************************************************************)
(* STEP 2: split sizes (lines 147-155).                                    *)
(***************************************************************************)
\* SplitSizes with the fake seed count taken as half the total, like the real
SplitSizesHalves(c) ==
    LET seed_real == c.seed_size \div 2
        seed_fake == c.seed_size \div 2
        val_real == c.validation_size \div 2
        val_fake == c.validation_size - val_real
    IN  [seed_real_count |-> seed_real,
         seed_fake_count |-> seed_fake,
         seed_fake_per_quartile |-> seed_fake \div NUM_QUARTILES,
         val_real_count |-> val_real,
         val_fake_count |-> val_fake,
         val_fake_per_quartile |-> val_fake \div NUM_QUARTILES]

SplitSizes(c) ==
    LET seed_real == c.seed_size \div 2
        seed_fake == c.seed_size - seed_real
        val_real == c.validation_size \div 2
        val_fake == c.validation_size - val_real
    IN  [seed_real_count |-> seed_real,
         seed_fake_count |-> seed_fake,
         seed_fake_per_quartile |-> seed_fake \div NUM_QUARTILES,
         val_real_count |-> val_real,
         val_fake_count |-> val_fake,
         val_fake_per_quartile |-> val_fake \div NUM_QUARTILES]

CalculateSplitSizes ==
    /\ pc = "sizes"
    /\ counts' = SplitSizes(cfg)
    /\ pc' = "setup"
    /\ UNCHANGED <<notSplitter, cfg, diskVars, run, outcome, FAKE_QUARTILES, loadVars, fakeVars,
                   realVars, copyVars, checkVars, histVars>>

(***************************************************************************)
(* STEP 3: setup_output_directories (lines 54-64, 177).                    *)
(***************************************************************************)
\* mkdir(parents=True, exist_ok=True) of every split/label directory
SetupOutputDirectories ==
    /\ pc = "setup"
    /\ present' = present \cup DestDirs
    /\ pc' = "split_fake"
    /\ UNCHANGED <<notSplitter, cfg, disk, meta, run, outcome, FAKE_QUARTILES, loadVars, counts,
                   fakeVars, realVars, copyVars, checkVars, histVars>>

(***************************************************************************)
(* STEP 4: one pass of the quartile loop (lines 191-237).                  *)
(***************************************************************************)
\* QuartileCounts with the remainders added to the first quartile
QuartileCountsRemainderFirst(i, c) ==
    IF i - 1 = 0
    THEN [seed |-> c.seed_fake_per_quartile + (c.seed_fake_count % NUM_QUARTILES),
          val |-> c.val_fake_per_quartile + (c.val_fake_count % NUM_QUARTILES)]
    ELSE [seed |-> c.seed_fake_per_quartile, val |-> c.val_fake_per_quartile]

\* seed and validation counts of the quartile at 1-based position i
QuartileCounts(i, c) ==
    IF i - 1 = NUM_QUARTILES - 1
    THEN [seed |-> c.seed_fake_per_quartile + (c.seed_fake_count % NUM_QUARTILES),
          val |-> c.val_fake_per_quartile + (c.val_fake_count % NUM_QUARTILES)]
    ELSE [seed |-> c.seed_fake_per_quartile, val |-> c.val_fake_per_quartile]

\* SplitQuartile with the pool slice started at the end of the seed slice
SplitQuartilePoolFromSeed(shuffled, q_seed_count, q_val_count) ==
    [seed |-> Slice(shuffled, 0, q_seed_count),
     val |-> Slice(shuffled, q_seed_count, q_seed_count + q_val_count),
     pool |-> SliceFrom(shuffled, q_seed_count)]

\* the three slices of a shuffled quartile (lines 216-218)
SplitQuartile(shuffled, q_seed_count, q_val_count) ==
    [seed |-> Slice(shuffled, 0, q_seed_count),
     val |-> Slice(shuffled, q_seed_count, q_seed_count + q_val_count),
     pool |-> SliceFrom(shuffled, q_seed_count + q_val_count)]

\* SplitFakeQuartile numbering the entries from 0, as enumerate counts
SplitFakeQuartileZeroBased ==
    /\ pc = "split_fake"
    /\ LET start == FAKE_QUARTILES[q_idx][1]
           end == FAKE_QUARTILES[q_idx][2]
           quartile_images == Slice(fake_images, start, end)
           sh == Shuffle(quartile_images, rng)
           qc == QuartileCounts(q_idx, counts)
           parts == SplitQuartile(sh.list, qc.seed, qc.val)
       IN  IF Len(quartile_images) = 0
           THEN UNCHANGED <<rng, seed_fakes, val_fakes, pool_fakes, quartile_stats>>
           ELSE /\ rng' = sh.state
                /\ seed_fakes' = seed_fakes \o parts.seed
                /\ val_fakes' = val_fakes \o parts.val
                /\ pool_fakes' = pool_fakes \o parts.pool
                /\ quartile_stats' = Append(quartile_stats,
                        [quartile |-> q_idx - 1,
                         range |-> <<start, end>>,
                         total |-> Len(quartile_images),
                         seed |-> Len(parts.seed),
                         validation |-> Len(parts.val),
                         pool |-> Len(parts.pool)])
    /\ q_idx' = q_idx + 1
    /\ pc' = IF q_idx = Len(FAKE_QUARTILES) THEN "split_real" ELSE "split_fake"
    /\ UNCHANGED <<notSplitter, cfg, diskVars, run, outcome, FAKE_QUARTILES, fake_images,
                   real_images, counts, realVars, copyVars, checkVars, histVars>>

\* one pass of the loop of line 191: an empty band is skipped (lines 198-200),
\* any other is shuffled, sliced and recorded (lines 203-237)
SplitFakeQuartile ==
    /\ pc = "split_fake"
    /\ LET start == FAKE_QUARTILES[q_idx][1]
           end == FAKE_QUARTILES[q_idx][2]
           quartile_images == Slice(fake_images, start, end)
           sh == Shuffle(quartile_images, rng)
           qc == QuartileCounts(q_idx, counts)
           parts == SplitQuartile(sh.list, qc.seed, qc.val)
       IN  IF Len(quartile_images) = 0
           THEN UNCHANGED <<rng, seed_fakes, val_fakes, pool_fakes, quartile_stats>>
           ELSE /\ rng' = sh.state
                /\ seed_fakes' = seed_fakes \o parts.seed
                /\ val_fakes' = val_fakes \o parts.val
                /\ pool_fakes' = pool_fakes \o parts.pool
                /\ quartile_stats' = Append(quartile_stats,
                        [quartile |-> q_idx,
                         range |-> <<start, end>>,
                         total |-> Len(quartile_images),
                         seed |-> Len(parts.seed),
                         validation |-> Len(parts.val),
                         pool |-> Len(parts.pool)])
    /\ q_idx' = q_idx + 1
    /\ pc' = IF q_idx = Len(FAKE_QUARTILES) THEN "split_real" ELSE "split_fake"
    /\ UNCHANGED <<notSplitter, cfg, diskVars, run, outcome, FAKE_QUARTILES, fake_images,
                   real_images, counts, realVars, copyVars, checkVars, histVars>>

(***************************************************************************)
(* STEP 5: split real images (lines 252-257).                              *)
(***************************************************************************)
\* SplitReals with the validation slice ended at val_real_count
SplitRealsValEnd(shuffled, c) ==
    [seed |-> Slice(shuffled, 0, c.seed_real_count),
     val |-> Slice(shuffled, c.seed_real_count, c.val_real_count),
     pool |-> SliceFrom(shuffled, c.seed_real_count + c.val_real_count)]

\* the three slices of the shuffled real list
SplitReals(shuffled, c) ==
    [seed |-> Slice(shuffled, 0, c.seed_real_count),
     val |-> Slice(shuffled, c.seed_real_count, c.seed_real_count + c.val_real_count),
     pool |-> SliceFrom(shuffled, c.seed_real_count + c.val_real_count)]

SplitRealImages ==
    /\ pc = "split_real"
    /\ LET sh == Shuffle(real_images, rng)
           parts == SplitReals(sh.list, counts)
       IN  /\ real_images' = sh.list
           /\ rng' = sh.state
           /\ seed_reals' = parts.seed
           /\ val_reals' = parts.val
           /\ pool_reals' = parts.pool
    /\ pc' = "copy"
    /\ UNCHANGED <<notSplitter, cfg, diskVars, run, outcome, FAKE_QUARTILES, fake_images, counts,
                   fakeVars, copyVars, checkVars, histVars>>


(***************************************************************************)
(* STEP 6: copy files (lines 271-293).                                     *)
(***************************************************************************)
\* CopyBatches with the fake pool sent to the real pool directory
CopyBatchesPoolMixed ==
    << [files |-> seed_reals, dest |-> <<"seed", "real">>],
       [files |-> seed_fakes, dest |-> <<"seed", "fake">>],
       [files |-> val_reals, dest |-> <<"validation", "real">>],
       [files |-> val_fakes, dest |-> <<"validation", "fake">>],
       [files |-> pool_reals, dest |-> <<"pool", "real">>],
       [files |-> pool_fakes, dest |-> <<"pool", "real">> ] >>

\* the six copy_files calls, in the order of lines 278-293
CopyBatches ==
    << [files |-> seed_reals, dest |-> <<"seed", "real">>],
       [files |-> seed_fakes, dest |-> <<"seed", "fake">>],
       [files |-> val_reals, dest |-> <<"validation", "real">>],
       [files |-> val_fakes, dest |-> <<"validation", "fake">>],
       [files |-> pool_reals, dest |-> <<"pool", "real">>],
       [files |-> pool_fakes, dest |-> <<"pool", "fake">> ] >>

\* content of the file at path f
DataOf(d, f) == (CHOOSE e \in d[f.dir] : e.name = f.name).data

\* the name under which copy_files stores f: dest_dir / f.name
DestName(f) == f.name

\* directory dest after a file named n with content x is written into it
Written(d, dest, n, x) ==
    [d EXCEPT ![dest] = {e \in @ : e.name # n} \cup {[name |-> n, data |-> x]}]

\* Copy2 as a move: the source entry is gone afterwards
Copy2Move(d, f, dest) ==
    [Written(d, dest, DestName(f), DataOf(d, f)) EXCEPT
        ![f.dir] = {e \in @ : e.name # f.name}]

\* shutil.copy2(f, dest_dir / f.name): the source is read, never changed
Copy2(d, f, dest) == Written(d, dest, DestName(f), DataOf(d, f))

\* one pass of the loop of line 274
CopyFile ==
    /\ pc = "copy"
    /\ pos < Len(CopyBatches[batch].files)
    /\ disk' = Copy2(disk, CopyBatches[batch].files[pos + 1], CopyBatches[batch].dest)
    /\ pos' = pos + 1
    /\ UNCHANGED <<notSplitter, cfg, present, meta, run, pc, outcome, FAKE_QUARTILES, loadVars,
                   counts, fakeVars, realVars, batch, checkVars, histVars>>

\* CopyFileFails with a rollback: the destinations are put back as they were
\* when the run started
CopyFileFailsRollsBack ==
    /\ pc = "copy"
    /\ pos < Len(CopyBatches[batch].files)
    /\ disk' = start_disk
    /\ pc' = "aborted"
    /\ outcome' = "Exception"
    /\ UNCHANGED <<notSplitter, cfg, present, meta, run, FAKE_QUARTILES, loadVars, counts,
                   fakeVars, realVars, copyVars, checkVars, histVars>>

\* CopyFileFails with the error caught in the loop: the file is skipped and
\* the batch goes on
CopyFileFailsSkips ==
    /\ pc = "copy"
    /\ pos < Len(CopyBatches[batch].files)
    /\ pos' = pos + 1
    /\ UNCHANGED <<notSplitter, cfg, diskVars, run, pc, outcome, FAKE_QUARTILES, loadVars,
                   counts, fakeVars, realVars, batch, checkVars, histVars>>

\* shutil.copy2 raises an I/O error: nothing handles it in the function, the
\* entry point reports it (lines 444-448).  The files copied so far stay.
CopyFileFails ==
    /\ pc = "copy"
    /\ pos < Len(CopyBatches[batch].files)
    /\ pc' = "aborted"
    /\ outcome' = "Exception"
    /\ UNCHANGED <<notSplitter, cfg, diskVars, run, FAKE_QUARTILES, loadVars, counts,
                   fakeVars, realVars, copyVars, checkVars, histVars>>

\* copy_files returns: the next call starts, or STEP 7 after the sixth
CopyFilesReturns ==
    /\ pc = "copy"
    /\ pos = Len(CopyBatches[batch].files)
    /\ IF batch < Len(CopyBatches)
       THEN batch' = batch + 1 /\ pos' = 0 /\ pc' = pc
       ELSE UNCHANGED copyVars /\ pc' = "verify"
    /\ UNCHANGED <<notSplitter, cfg, diskVars, run, outcome, FAKE_QUARTILES, loadVars, counts,
                   fakeVars, realVars, checkVars, histVars>>

(***************************************************************************)
(* STEP 7: verify results (lines 301-342).                                 *)
(***************************************************************************)
\* directory.glob('*.*'): every entry whose name holds a dot
GlobAll(d, dir) == d[dir]

\* Rescan that reports the sizes of the six lists instead of looking at the disk
RescanFromLists(d) ==
    [s \in Splits |->
        LET real_count == Len(CASE s = "seed" -> seed_reals
                                [] s = "validation" -> val_reals
                                [] OTHER -> pool_reals)
            fake_count == Len(CASE s = "seed" -> seed_fakes
                                [] s = "validation" -> val_fakes
                                [] OTHER -> pool_fakes)
        IN  [real |-> real_count, fake |-> fake_count, total |-> real_count + fake_count]]

\* the re-scan of the six destination directories (lines 303-313)
Rescan(d) ==
    [s \in Splits |->
        LET real_count == Cardinality(GlobAll(d, <<s, "real">>))
            fake_count == Cardinality(GlobAll(d, <<s, "fake">>))
        IN  [real |-> real_count, fake |-> fake_count, total |-> real_count + fake_count]]

\* grand_total of lines 326-328
GrandTotal(v) ==
    SumOver([s \in Splits |-> v[s].real], Splits) + SumOver([s \in Splits |-> v[s].fake], Splits)

\* VerifyResults that enforces the check of line 338: a mismatch ends the run
VerifyResultsEnforcing ==
    /\ pc = "verify"
    /\ verification' = Rescan(disk)
    /\ warned' = (GrandTotal(Rescan(disk)) # Len(real_images) + Len(fake_images))
    /\ IF GrandTotal(Rescan(disk)) # Len(real_images) + Len(fake_images)
       THEN pc' = "aborted" /\ outcome' = "ValueError"
       ELSE pc' = "verify_seed" /\ outcome' = outcome
    /\ UNCHANGED <<notSplitter, cfg, diskVars, run, FAKE_QUARTILES, loadVars, counts,
                   fakeVars, realVars, copyVars, stratification, histVars>>

VerifyResults ==
    /\ pc = "verify"
    /\ verification' = Rescan(disk)
    /\ warned' = (GrandTotal(Rescan(disk)) # Len(real_images) + Len(fake_images))
    /\ pc' = "verify_seed"
    /\ UNCHANGED <<notSplitter, cfg, diskVars, run, outcome, FAKE_QUARTILES, loadVars, counts,
                   fakeVars, realVars, copyVars, stratification, histVars>>

(***************************************************************************)
(* STEPs 8 and 9: stratification reports (lines 348-377).                  *)
(***************************************************************************)
\* per quartile, the images of fake_images[start:end] whose name is in dir
QuartileRepresentation(d, dir, quartiles, images) ==
    [i \in 1..Len(quartiles) |->
        LET band == Slice(images, quartiles[i][1], quartiles[i][2])
        IN  Cardinality({k \in 1..Len(band) : band[k].name \in Names(GlobAll(d, dir))})]

VerifySeedStratification ==
    /\ pc = "verify_seed"
    /\ stratification' = [stratification EXCEPT !.seed =
            QuartileRepresentation(disk, <<"seed", "fake">>, FAKE_QUARTILES, fake_images)]
    /\ pc' = "verify_val"
    /\ UNCHANGED <<notSplitter, cfg, diskVars, run, outcome, FAKE_QUARTILES, loadVars, counts,
                   fakeVars, realVars, copyVars, verification, warned, histVars>>

VerifyValidationStratification ==
    /\ pc = "verify_val"
    /\ stratification' = [stratification EXCEPT !.validation =
            QuartileRepresentation(disk, <<"validation", "fake">>, FAKE_QUARTILES, fake_images)]
    /\ pc' = "save"
    /\ UNCHANGED <<notSplitter, cfg, diskVars, run, outcome, FAKE_QUARTILES, loadVars, counts,
                   fakeVars, realVars, copyVars, verification, warned, histVars>>

(***************************************************************************)
(* STEP 10: save metadata (lines 82-89, 385-407).                          *)
(***************************************************************************)
\* the metadata dictionary of lines 385-405 (timestamp and paths left out)
Metadata ==
    [random_seed |-> RANDOM_SEED,
     configuration |-> [seed_size |-> cfg.seed_size,
                        validation_size |-> cfg.validation_size,
                        num_quartiles |-> NUM_QUARTILES],
     input |-> [fake_images |-> Len(fake_images),
                real_images |-> Len(real_images),
                total |-> Len(fake_images) + Len(real_images)],
     quartiles |-> quartile_stats,
     output |-> verification]

\* open(metadata_path, 'w') of line 86: the file exists and is empty
OpenMetadata ==
    /\ pc = "save"
    /\ meta' = [state |-> "partial", content |-> << >>]
    /\ opens' = opens + 1
    /\ pc' = "dump"
    /\ UNCHANGED <<notSplitter, cfg, disk, present, run, outcome, FAKE_QUARTILES, loadVars, counts,
                   fakeVars, realVars, copyVars, checkVars, start_disk, writes, prev>>

\* json.dump and the close of the with block (lines 87-89)
DumpMetadata ==
    /\ pc = "dump"
    /\ meta' = [state |-> "written", content |-> <<Metadata>>]
    /\ writes' = writes + 1
    /\ pc' = "summary"
    /\ UNCHANGED <<notSplitter, cfg, disk, present, run, outcome, FAKE_QUARTILES, loadVars, counts,
                   fakeVars, realVars, copyVars, checkVars, start_disk, opens, prev>>

\* the closing report (lines 413-432) and the return to the entry point
Finish ==
    /\ pc = "summary"
    /\ pc' = "done"
    /\ outcome' = "complete"
    /\ UNCHANGED <<notSplitter, cfg, diskVars, run, FAKE_QUARTILES, loadVars, counts,
                   fakeVars, realVars, copyVars, checkVars, histVars>>

(***************************************************************************)
(* The entry point (lines 438-448).                                        *)
(***************************************************************************)
Running == pc \notin {"done", "aborted"}

\* Interrupt with a handler that removes the partial output
InterruptCleansUp ==
    /\ Running
    /\ pc' = "aborted"
    /\ outcome' = "KeyboardInterrupt"
    /\ disk' = [d \in Dirs |-> IF d \in DestDirs THEN start_disk[d] ELSE disk[d]]
    /\ UNCHANGED <<notSplitter, cfg, present, meta, run, FAKE_QUARTILES, loadVars, counts,
                   fakeVars, realVars, copyVars, checkVars, histVars>>

\* KeyboardInterrupt at any point of the call: caught at line 441, reported,
\* and the process ends; nothing is undone.
Interrupt ==
    /\ Running
    /\ pc' = "aborted"
    /\ outcome' = "KeyboardInterrupt"
    /\ UNCHANGED <<notSplitter, cfg, diskVars, run, FAKE_QUARTILES, loadVars, counts,
                   fakeVars, realVars, copyVars, checkVars, histVars>>

\* the split assignment is in memory from the end of STEP 5 on
Assigned ==
    pc \in {"copy", "verify", "verify_seed", "verify_val", "save", "dump", "summary", "done"}
    \/ (pc = "aborted" /\ outcome \in {"Exception", "KeyboardInterrupt"}
        /\ Len(seed_reals) + Len(val_reals) + Len(pool_reals) > 0)

Assignment ==
    [seed_real |-> seed_reals, seed_fake |-> seed_fakes,
     val_real |-> val_reals, val_fake |-> val_fakes,
     pool_real |-> pool_reals, pool_fake |-> pool_fakes]

\* The script is run again: a new process, the same file system.
NewProcess ==
    /\ ~Running
    /\ run < MaxRuns
    /\ run' = run + 1
    /\ prev' = IF Assigned THEN <<Assignment>> ELSE << >>
    /\ start_disk' = disk
    /\ pc' = "start"
    /\ outcome' = "running"
    /\ rng' = 0
    /\ FAKE_QUARTILES' = InitialFakeQuartiles(cfg)
    /\ fake_images' = << >>
    /\ real_images' = << >>
    /\ counts' = NoCounts
    /\ q_idx' = 1
    /\ seed_fakes' = << >>
    /\ val_fakes' = << >>
    /\ pool_fakes' = << >>
    /\ quartile_stats' = << >>
    /\ seed_reals' = << >>
    /\ val_reals' = << >>
    /\ pool_reals' = << >>
    /\ batch' = 1
    /\ pos' = 0
    /\ verification' = NoVerification
    /\ warned' = FALSE
    /\ stratification' = [seed |-> << >>, validation |-> << >>]
    /\ opens' = 0
    /\ writes' = 0
    /\ UNCHANGED <<notSplitter, cfg, diskVars>>

Next ==
    \/ LoadImages
    \/ AdjustQuartiles
    \/ CalculateSplitSizes
    \/ SetupOutputDirectories
    \/ SplitFakeQuartile
    \/ SplitRealImages
    \/ CopyFile
    \/ CopyFileFails
    \/ CopyFilesReturns
    \/ VerifyResults
    \/ VerifySeedStratification
    \/ VerifyValidationStratification
    \/ OpenMetadata
    \/ DumpMetadata
    \/ Finish
    \/ Interrupt
    \/ NewProcess

Spec == Init /\ [][Next]_vars

\* the runs of the worked example
SpecExample == InitExample /\ [][Next]_vars

\* the first process starts with nothing in the six destination directories
InitRerun ==
    /\ \E sc \in Scenarios, v \in Variations \ {"stale"},
          missing \in SUBSET {FAKE_DIR, REAL_DIR} :
            Start(sc, v, missing)
    /\ AppIdle /\ BulkIdle /\ DownloadIdle /\ PredictIdle

\* runs of the script that begin on empty destinations
SpecRerun == InitRerun /\ [][Next]_vars

(***************************************************************************)
(* stratified_split_dataset() called more than once by one process: the     *)
(* module-level FAKE_QUARTILES keeps what an earlier call assigned to it    *)
(* (global statement, lines 133-139), every local starts afresh.            *)
(***************************************************************************)
\* The function is called again in the same process, on a source directory
\* that by then holds n fake images.
CallAgain ==
    /\ ~Running
    /\ run < MaxRuns
    /\ run' = run + 1
    /\ \E n \in 0..MaxFake :
            disk' = [disk EXCEPT ![FAKE_DIR] = Corpus("fake", n, FALSE)]
    /\ prev' = IF Assigned THEN <<Assignment>> ELSE << >>
    /\ start_disk' = disk'
    /\ pc' = "start"
    /\ outcome' = "running"
    /\ rng' = 0
    /\ fake_images' = << >>
    /\ real_images' = << >>
    /\ counts' = NoCounts
    /\ q_idx' = 1
    /\ seed_fakes' = << >>
    /\ val_fakes' = << >>
    /\ pool_fakes' = << >>
    /\ quartile_stats' = << >>
    /\ seed_reals' = << >>
    /\ val_reals' = << >>
    /\ pool_reals' = << >>
    /\ batch' = 1
    /\ pos' = 0
    /\ verification' = NoVerification
    /\ warned' = FALSE
    /\ stratification' = [seed |-> << >>, validation |-> << >>]
    /\ opens' = 0
    /\ writes' = 0
    /\ UNCHANGED <<notSplitter, cfg, present, meta, FAKE_QUARTILES>>

\* the first call: the small configuration, both source directories present
InitCalls ==
    /\ \E n \in 0..MaxFake : Start(<<SmallConfig, n, MaxReal>>, "clean", {})
    /\ AppIdle /\ BulkIdle /\ DownloadIdle /\ PredictIdle

NextCalls ==
    \/ LoadImages
    \/ AdjustQuartiles
    \/ CalculateSplitSizes
    \/ SetupOutputDirectories
    \/ SplitFakeQuartile
    \/ SplitRealImages
    \/ CopyFile
    \/ CopyFileFails
    \/ CopyFilesReturns
    \/ VerifyResults
    \/ VerifySeedStratification
    \/ VerifyValidationStratification
    \/ OpenMetadata
    \/ DumpMetadata
    \/ Finish
    \/ Interrupt
    \/ CallAgain

\* calls of stratified_split_dataset() by one process
SpecCalls == InitCalls /\ [][NextCalls]_vars


(***************************************************************************)
(* app.py: the web server.  The main thread runs lines 225-248; each       *)
(* request is handled by a thread of its own (app.run serves threaded),    *)
(* one step per statement that reads or writes shared state.               *)
(***************************************************************************)
ALLOWED_EXTENSIONS == {"png", "jpg", "jpeg", "gif", "bmp", "webp"}

\* the file names a client may send: base, whether a dot follows, and the
\* text after the last dot
ClientNames ==
    {[base |-> "", dot |-> FALSE, ext |-> ""],
     [base |-> "photo", dot |-> TRUE, ext |-> "png"],
     [base |-> "photo", dot |-> TRUE, ext |-> "PNG"],
     [base |-> "notes", dot |-> TRUE, ext |-> "txt"],
     [base |-> "png", dot |-> FALSE, ext |-> ""]}

\* str.lower() on the extensions above
Lower(e) == IF e = "PNG" THEN "png" ELSE e

\* allowed_file(filename) (lines 71-73)
allowed_file(filename) == filename.dot /\ Lower(filename.ext) \in ALLOWED_EXTENSIONS

\* what a POST to /api/predict carries
PredictBodies ==
    {[kind |-> "too_large", filename |-> n] : n \in {[base |-> "photo", dot |-> TRUE, ext |-> "png"]}}
    \cup {[kind |-> "no_file", filename |-> n] : n \in {[base |-> "", dot |-> FALSE, ext |-> ""]}}
    \cup {[kind |-> "file", filename |-> n] : n \in ClientNames}

\* jsonify(...) with a status, and the page Flask itself answers with when an
\* exception or a routing error has no registered handler
Json(status) == [status |-> status, body |-> "json"]
JsonError(status) == [status |-> status, body |-> "json_error"]
FlaskPage(status) == [status |-> status, body |-> "html"]

\* the server accepts requests
Serving == program = "app" /\ main_pc = "serving"

\* the states of the model file
ModelFiles == {"missing", "valid", "corrupt"}

\* a program that needs the model file starts
StartProgram(p, f) ==
    /\ program = p
    /\ model_file = f
    /\ MODEL = "None"
    /\ loads = 0
    /\ main_pc = "start"
    /\ model_found = "unchecked"
    /\ reported = "nothing"
    /\ exit_code = 0
    /\ th = [t \in Threads |-> IdleThread]
    /\ uploads = {}
    /\ clock = 0

\* the variables a step of app.py or of a model script leaves alone
notApp == <<splitterVars, bulkVars, downloadVars, predictVars>>

\* AppCheckModel with a fatal check: without the model file the server
\* reports it and exits
AppCheckModelExits ==
    /\ program = "app"
    /\ main_pc = "start"
    /\ IF model_file # "missing"
       THEN /\ model_found' = "yes"
            /\ main_pc' = "load_at_start"
            /\ reported' = reported
       ELSE /\ model_found' = "no"
            /\ main_pc' = "exited"
            /\ reported' = "model_not_found"
    /\ UNCHANGED <<notApp, program, model_file, MODEL, loads, exit_code, th, uploads, clock>>

\* the start-up block of app.py (lines 230-241): the model path is checked
\* and, if the file is missing, a warning is printed and the server starts
AppCheckModel ==
    /\ program = "app"
    /\ main_pc = "start"
    /\ IF model_file # "missing"
       THEN /\ model_found' = "yes"
            /\ main_pc' = "load_at_start"
            /\ reported' = reported
       ELSE /\ model_found' = "no"
            /\ main_pc' = "serving"
            /\ reported' = "model_not_found_server_will_start"
    /\ UNCHANGED <<notApp, program, model_file, MODEL, loads, exit_code, th, uploads, clock>>

\* load_model() called from the start-up block (lines 232-237): a failure is
\* printed as a warning, and app.run follows in either case (line 248)
AppLoadAtStart ==
    /\ program = "app"
    /\ main_pc = "load_at_start"
    /\ IF model_file = "valid"
       THEN MODEL' = "loaded" /\ loads' = loads + 1 /\ reported' = "model_loaded"
       ELSE MODEL' = MODEL /\ loads' = loads /\ reported' = "could_not_load_model"
    /\ main_pc' = "serving"
    /\ UNCHANGED <<notApp, program, model_file, model_found, exit_code, th, uploads, clock>>

\* somebody trains the model while a program runs: the file appears, or a
\* broken file is replaced
InstallModel ==
    /\ program = "app"
    /\ main_pc = "serving"
    /\ model_file # "valid"
    /\ model_file' = "valid"
    /\ UNCHANGED <<notApp, program, MODEL, loads, main_pc, model_found, reported,
                   exit_code, th, uploads, clock>>

\* thread t goes on with record r; nothing else of the server changes
Handle(t, r) ==
    /\ th' = [th EXCEPT ![t] = r]
    /\ UNCHANGED <<notApp, program, model_file, MODEL, loads, main_pc, model_found,
                   reported, exit_code, uploads, clock>>

\* the JSON of /api/health (lines 187-192)
HealthJson(model_exists, model_loaded) ==
    [status |-> 200, body |-> "json", model_exists |-> model_exists,
     model_loaded |-> model_loaded]

\* health calling load_model() before it answers
healthLoads(t) ==
    /\ Serving
    /\ th[t].pc = "idle"
    /\ MODEL' = IF model_file = "valid" THEN "loaded" ELSE MODEL
    /\ loads' = IF model_file = "valid" /\ MODEL = "None" THEN loads + 1 ELSE loads
    /\ th' = [th EXCEPT ![t] = [pc |-> "finished", route |-> "health", path |-> 0,
                                 resp |-> HealthJson(model_file # "missing", MODEL' # "None")]]
    /\ UNCHANGED <<notApp, program, model_file, main_pc, model_found, reported, exit_code,
                   uploads, clock>>

\* GET /api/health (lines 181-194): reads MODEL_PATH.exists() and MODEL, loads
\* nothing
health(t) ==
    /\ Serving
    /\ th[t].pc = "idle"
    /\ Handle(t, [pc |-> "finished", route |-> "health", path |-> 0,
                  resp |-> HealthJson(model_file # "missing", MODEL # "None")])

\* a request to a route that is not registered: the 404 handler (lines 219-222)
not_found(t) ==
    /\ Serving
    /\ th[t].pc = "idle"
    /\ Handle(t, [pc |-> "finished", route |-> "unknown", path |-> 0,
                  resp |-> JsonError(404)])

\* GET /api/predict: the route takes POST only (line 128) and no handler is
\* registered for 405, so Flask answers with its own page
MethodNotAllowed(t) ==
    /\ Serving
    /\ th[t].pc = "idle"
    /\ Handle(t, [pc |-> "finished", route |-> "predict", path |-> 0,
                  resp |-> FlaskPage(405)])

\* what api_predict answers before it saves anything (lines 132-140); a body
\* over MAX_CONTENT_LENGTH raises 413 when request.files is read, and the 413
\* handler answers (lines 213-216)
Rejection(body) ==
    CASE body.kind = "too_large" -> JsonError(413)
      [] body.kind = "no_file" -> JsonError(400)
      [] body.filename.base = "" /\ ~body.filename.dot -> JsonError(400)
      [] ~allowed_file(body.filename) -> JsonError(400)
      [] OTHER -> NoResponse

\* PredictRejected with the upload saved before the checks
PredictRejectedAfterSave(t) ==
    /\ Serving
    /\ th[t].pc = "idle"
    /\ clock < MaxUploads
    /\ \E body \in PredictBodies :
        /\ Rejection(body) # NoResponse
        /\ uploads' = IF body.kind = "file" THEN uploads \cup {clock + 1} ELSE uploads
        /\ th' = [th EXCEPT ![t] = [pc |-> "finished", route |-> "predict", path |-> 0,
                                     resp |-> Rejection(body)]]
    /\ clock' = clock + 1
    /\ UNCHANGED <<notApp, program, model_file, MODEL, loads, main_pc, model_found,
                   reported, exit_code>>

\* POST /api/predict that is rejected
PredictRejected(t) ==
    /\ Serving
    /\ th[t].pc = "idle"
    /\ \E body \in PredictBodies :
        /\ Rejection(body) # NoResponse
        /\ Handle(t, [pc |-> "finished", route |-> "predict", path |-> 0,
                      resp |-> Rejection(body)])

\* POST /api/predict with an allowed file: the upload gets a name made of the
\* time stamp and the client's file name (lines 142-143); time stamps of
\* different requests differ
PredictAccepted(t) ==
    /\ Serving
    /\ th[t].pc = "idle"
    /\ clock < MaxUploads
    /\ \E body \in PredictBodies : Rejection(body) = NoResponse
    /\ clock' = clock + 1
    /\ th' = [th EXCEPT ![t] = [pc |-> "save", route |-> "predict", path |-> clock + 1,
                                 resp |-> NoResponse]]
    /\ UNCHANGED <<notApp, program, model_file, MODEL, loads, main_pc, model_found,
                   reported, exit_code, uploads>>

\* file.save(filepath) (line 144), outside the try: it writes the file, or it
\* raises, before or after the file was created; nothing in api_predict
\* catches that, so Flask answers 500 with its own page
SaveUpload(t) ==
    /\ th[t].pc = "save"
    /\ \E saved_file \in {"written", "none", "partial"} :
        /\ uploads' = IF saved_file = "none" THEN uploads ELSE uploads \cup {th[t].path}
        /\ th' = [th EXCEPT ![t] =
                    IF saved_file = "written"
                    THEN [@ EXCEPT !.pc = "load"]
                    ELSE [@ EXCEPT !.pc = "finished", !.resp = FlaskPage(500)]]
    /\ UNCHANGED <<notApp, program, model_file, MODEL, loads, main_pc, model_found,
                   reported, exit_code, clock>>

\* GET /api/info (lines 197-210): calls load_model inside its try
info(t) ==
    /\ Serving
    /\ th[t].pc = "idle"
    /\ Handle(t, [pc |-> "load", route |-> "info", path |-> 0, resp |-> NoResponse])

\* load_model, lines 56-61: MODEL is read; if it is None the path is checked
\* and a missing file raises FileNotFoundError
load_model(t) ==
    /\ th[t].pc = "load"
    /\ Handle(t, [th[t] EXCEPT !.pc =
            CASE MODEL # "None" -> "use"
              [] model_file = "missing" -> "except"
              [] OTHER -> "deserialize"])

\* load_model, lines 62-67: keras.models.load_model runs and its result is
\* assigned to MODEL; a file keras cannot read raises
Deserialize(t) ==
    /\ th[t].pc = "deserialize"
    /\ IF model_file = "valid"
       THEN /\ MODEL' = "loaded"
            /\ loads' = loads + 1
            /\ th' = [th EXCEPT ![t].pc = "use"]
       ELSE /\ MODEL' = MODEL
            /\ loads' = loads
            /\ th' = [th EXCEPT ![t].pc = "except"]
    /\ UNCHANGED <<notApp, program, model_file, main_pc, model_found, reported,
                   exit_code, uploads, clock>>

\* the model is at hand: info answers; predict_image preprocesses the upload
\* and predicts (lines 98-119), which raises on a file that is no image
UseModel(t) ==
    /\ th[t].pc = "use"
    /\ IF th[t].route = "info"
       THEN Handle(t, [th[t] EXCEPT !.pc = "finished", !.resp = Json(200)])
       ELSE \E readable \in BOOLEAN :
               Handle(t, IF readable /\ th[t].path \in uploads
                         THEN [th[t] EXCEPT !.pc = "finally", !.resp = Json(200)]
                         ELSE [th[t] EXCEPT !.pc = "except"])

\* HandleException dropping the cached model on an error
HandleExceptionResetsModel(t) ==
    /\ th[t].pc = "except"
    /\ MODEL' = "None"
    /\ th' = [th EXCEPT ![t] = [th[t] EXCEPT
                    !.pc = IF th[t].route = "predict" THEN "finally" ELSE "finished",
                    !.resp = JsonError(500)]]
    /\ UNCHANGED <<notApp, program, model_file, loads, main_pc, model_found, reported,
                   exit_code, uploads, clock>>

\* except Exception (lines 166-171 and 209-210): a JSON error with status 500
HandleException(t) ==
    /\ th[t].pc = "except"
    /\ Handle(t, [th[t] EXCEPT !.pc = IF th[t].route = "predict" THEN "finally" ELSE "finished",
                                !.resp = JsonError(500)])

\* finally (lines 173-178): the upload is unlinked if it exists; an error of
\* exists() or unlink() is swallowed
Cleanup(t) ==
    /\ th[t].pc = "finally"
    /\ \E unlinked \in BOOLEAN :
        uploads' = IF unlinked THEN uploads \ {th[t].path} ELSE uploads
    /\ th' = [th EXCEPT ![t].pc = "finished"]
    /\ UNCHANGED <<notApp, program, model_file, MODEL, loads, main_pc, model_found,
                   reported, exit_code, clock>>

\* the response is sent and the thread is free for the next request
Respond(t) ==
    /\ th[t].pc = "finished"
    /\ Handle(t, IdleThread)

(***************************************************************************)
(* scripts/evaluate_model.py and scripts/test_prediction.py.               *)
(***************************************************************************)
\* evaluate(), lines 10-16: without the model file, or without the
\* validation directory, a line is printed and the function returns
EvaluateCheck ==
    /\ program = "evaluate_model"
    /\ main_pc = "start"
    /\ IF model_file = "missing"
       THEN /\ model_found' = "no"
            /\ reported' = "model_not_found"
            /\ main_pc' = "exited"
       ELSE /\ model_found' = "yes"
            /\ \E val_dir \in BOOLEAN :
                IF val_dir
                THEN main_pc' = "loading" /\ reported' = reported
                ELSE main_pc' = "exited" /\ reported' = "validation_data_not_found"
    /\ exit_code' = 0
    /\ UNCHANGED <<notApp, program, model_file, MODEL, loads, th, uploads, clock>>

\* test_prediction.py, lines 6-9: without the model file a line is printed
\* and the script exits with status 1
TestPredictionCheck ==
    /\ program = "test_prediction"
    /\ main_pc = "start"
    /\ IF model_file = "missing"
       THEN /\ model_found' = "no"
            /\ reported' = "model_not_found"
            /\ main_pc' = "exited"
            /\ exit_code' = 1
       ELSE /\ model_found' = "yes"
            /\ reported' = reported
            /\ main_pc' = "loading"
            /\ exit_code' = exit_code
    /\ UNCHANGED <<notApp, program, model_file, MODEL, loads, th, uploads, clock>>

\* keras.models.load_model of a script (evaluate_model.py line 19,
\* test_prediction.py line 11); an error is not caught and ends the script
ScriptLoadModel ==
    /\ program \in {"evaluate_model", "test_prediction"}
    /\ main_pc = "loading"
    /\ IF model_file = "valid"
       THEN /\ loads' = loads + 1
            /\ main_pc' = "working"
            /\ UNCHANGED <<reported, exit_code>>
       ELSE /\ loads' = loads
            /\ main_pc' = "exited"
            /\ reported' = "traceback"
            /\ exit_code' = 1
    /\ UNCHANGED <<notApp, program, model_file, MODEL, model_found, th, uploads, clock>>

\* the rest of a script: evaluate predicts and prints its report;
\* test_prediction exits with status 1 when it finds no image (lines 15-24)
\* and prints a verdict otherwise
ScriptRun ==
    /\ program \in {"evaluate_model", "test_prediction"}
    /\ main_pc = "working"
    /\ main_pc' = "exited"
    /\ \E image_found \in BOOLEAN :
        IF program = "test_prediction" /\ ~image_found
        THEN reported' = "no_images_found" /\ exit_code' = 1
        ELSE reported' = "report" /\ exit_code' = 0
    /\ UNCHANGED <<notApp, program, model_file, MODEL, loads, model_found, th, uploads, clock>>

\* the programs that need the model file
ModelPrograms == {"app", "evaluate_model", "test_prediction"}

\* the splitter was never started
SplitterIdle ==
    /\ cfg = ProgramConfig
    /\ disk = [d \in Dirs |-> {}]
    /\ present = {}
    /\ meta = [state |-> "absent", content |-> << >>]
    /\ run = 0
    /\ pc = "off"
    /\ outcome = "none"
    /\ rng = 0
    /\ FAKE_QUARTILES = InitialFakeQuartiles(cfg)
    /\ fake_images = << >> /\ real_images = << >>
    /\ counts = NoCounts
    /\ q_idx = 1
    /\ seed_fakes = << >> /\ val_fakes = << >> /\ pool_fakes = << >>
    /\ quartile_stats = << >>
    /\ seed_reals = << >> /\ val_reals = << >> /\ pool_reals = << >>
    /\ batch = 1 /\ pos = 0
    /\ verification = NoVerification
    /\ warned = FALSE
    /\ stratification = [seed |-> << >>, validation |-> << >>]
    /\ start_disk = disk
    /\ opens = 0 /\ writes = 0
    /\ prev = << >>

InitApp ==
    /\ \E p \in ModelPrograms, f \in ModelFiles : StartProgram(p, f)
    /\ SplitterIdle /\ BulkIdle /\ DownloadIdle /\ PredictIdle

NextApp ==
    \/ AppCheckModel
    \/ AppLoadAtStart
    \/ InstallModel
    \/ EvaluateCheck
    \/ TestPredictionCheck
    \/ ScriptLoadModel
    \/ ScriptRun
    \/ \E t \in Threads :
        \/ health(t)
        \/ not_found(t)
        \/ MethodNotAllowed(t)
        \/ PredictRejected(t)
        \/ PredictAccepted(t)
        \/ SaveUpload(t)
        \/ info(t)
        \/ load_model(t)
        \/ Deserialize(t)
        \/ UseModel(t)
        \/ HandleException(t)
        \/ Cleanup(t)
        \/ Respond(t)

\* the web server and the two model scripts
SpecApp == InitApp /\ [][NextApp]_vars

(***************************************************************************)
(* The bulk loops: the copy loop of organize_dfd_dataset                   *)
(* (download_dfd_kaggle.py lines 143-154), download_synthetic_faces        *)
(* (download_fake_faces.py lines 31-54) and download_from_list             *)
(* (download_real_faces.py lines 96-119).  One step per item.              *)
(***************************************************************************)
BulkScripts == {"organize_dfd_dataset", "download_synthetic_faces", "download_from_list"}

\* what a line of the URL file can be: a URL, a blank line, or text that is
\* no URL (the '#' lines of the template of lines 128-138)
LineKinds == {"url", "blank", "comment"}

\* the batches a bulk function may get: the copy loop runs only when at least
\* one image was found (lines 122-124)
Batches(sc) ==
    UNION {[1..n -> IF sc = "download_from_list" THEN LineKinds ELSE {"item"}] :
           n \in (IF sc = "organize_dfd_dataset" THEN 1 ELSE 0)..MaxItems}

\* the variables a step of a bulk loop leaves alone
notBulk == <<splitterVars, appVars, downloadVars, predictVars>>

\* the item the loop is at
Item == items[done_items + 1]

InLoop == bulk_pc = "loop" /\ done_items < Len(items)

\* the item was copied or downloaded
Succeeded ==
    /\ successful' = successful + 1
    /\ attempted' = attempted + 1
    /\ dest_files' = dest_files + 1
    /\ done_items' = done_items + 1
    /\ UNCHANGED <<failed, logged, bulk_pc>>

\* the item raised inside the try and the except clause caught it: it is
\* printed and the loop goes on; the destination file may have been created
Skipped(partial) ==
    /\ failed' = failed + 1
    /\ attempted' = attempted + 1
    /\ logged' = logged + 1
    /\ dest_files' = dest_files + (IF partial THEN 1 ELSE 0)
    /\ done_items' = done_items + 1
    /\ UNCHANGED <<successful, bulk_pc>>

\* the item raised and no except clause of the loop matches: the exception
\* leaves the function
Escaped(partial) ==
    /\ failed' = failed + 1
    /\ attempted' = attempted + 1
    /\ dest_files' = dest_files + (IF partial THEN 1 ELSE 0)
    /\ bulk_pc' = "raised"
    /\ UNCHANGED <<successful, logged, done_items>>

\* organize_dfd_dataset, lines 149-154: shutil.copy2 in try / except Exception
organize_dfd_dataset ==
    /\ script = "organize_dfd_dataset"
    /\ InLoop
    /\ \E copied \in BOOLEAN, partial \in BOOLEAN :
        IF copied THEN ~partial /\ Succeeded ELSE Skipped(partial)
    /\ UNCHANGED <<notBulk, script, items, result>>

\* download_synthetic_faces, lines 32-51: urlretrieve in try / except Exception
download_synthetic_faces ==
    /\ script = "download_synthetic_faces"
    /\ InLoop
    /\ \E fetched \in BOOLEAN, partial \in BOOLEAN :
        IF fetched THEN ~partial /\ Succeeded ELSE Skipped(partial)
    /\ UNCHANGED <<notBulk, script, items, result>>

\* download_from_list, lines 100-116: a blank line is passed over; urlretrieve
\* runs in try / except (URLError, HTTPError).  Text that is no URL makes
\* urlretrieve raise ValueError, and a connection or disk error while the
\* body is read or written is an OSError that is no URLError: neither is
\* caught.
download_from_list ==
    /\ script = "download_from_list"
    /\ InLoop
    /\ CASE Item = "blank" ->
                /\ done_items' = done_items + 1
                /\ UNCHANGED <<successful, attempted, failed, logged, dest_files, bulk_pc>>
         [] Item = "comment" -> Escaped(FALSE)
         [] OTHER ->
                \E fetch \in {"ok", "URLError", "OSError"}, partial \in BOOLEAN :
                    CASE fetch = "ok" -> ~partial /\ Succeeded
                      [] fetch = "URLError" -> Skipped(partial)
                      [] OTHER -> Escaped(partial)
    /\ UNCHANGED <<notBulk, script, items, result>>

\* the loop is over: download_synthetic_faces returns successful (line 54),
\* download_from_list returns count (line 119), organize_dfd_dataset prints
\* the number of files in its destination directories (lines 169-176)
BulkReturns ==
    /\ bulk_pc = "loop"
    /\ done_items = Len(items)
    /\ result' = IF script = "organize_dfd_dataset" THEN dest_files ELSE successful
    /\ bulk_pc' = "returned"
    /\ UNCHANGED <<notBulk, script, items, done_items, successful, attempted, failed,
                   logged, dest_files>>

\* a bulk function starts on a batch; the destination may hold files already
StartBulk(sc, batch_items, existing) ==
    /\ script = sc
    /\ items = batch_items
    /\ done_items = 0
    /\ successful = 0
    /\ attempted = 0
    /\ failed = 0
    /\ logged = 0
    /\ dest_files = existing
    /\ result = NotReturned
    /\ bulk_pc = "loop"

InitBulk ==
    /\ \E sc \in BulkScripts : \E batch_items \in Batches(sc), existing \in {0, 1} :
            StartBulk(sc, batch_items, existing)
    /\ SplitterIdle /\ AppIdle /\ DownloadIdle /\ PredictIdle

NextBulk ==
    \/ organize_dfd_dataset
    \/ download_synthetic_faces
    \/ download_from_list
    \/ BulkReturns

\* the three bulk loops
SpecBulk == InitBulk /\ [][NextBulk]_vars

(***************************************************************************)
(* download() of download_fake_faces_improved.py (lines 43-70): one step   *)
(* per pass of the while loop.                                             *)
(***************************************************************************)
\* the default of the max_attempts parameter (line 43)
DEFAULT_MAX_ATTEMPTS == 10

\* the variables a step of download() leaves alone
notDownload == <<splitterVars, appVars, bulkVars, predictVars>>

\* the condition of the while loop with the bound tested by <=
KeepsGoingOneMore == saved < target_count /\ attempts <= max_attempts * target_count

\* the condition of the while loop (line 49)
KeepsGoing == saved < target_count /\ attempts < max_attempts * target_count

\* the except branch of lines 65-69 sleeping backoff whatever the count
FetchFailsConstantWait ==
    /\ dl_pc = "loop"
    /\ KeepsGoing
    /\ attempts' = attempts + 1
    /\ waited' = backoff
    /\ UNCHANGED <<notDownload, target_count, max_attempts, backoff, saved, idx, returned, dl_pc>>

\* fetch_image raises requests.RequestException (lines 65-69): the failure is
\* counted and the wait is backoff * attempts
FetchFails ==
    /\ dl_pc = "loop"
    /\ KeepsGoing
    /\ attempts' = attempts + 1
    /\ waited' = backoff * (attempts + 1)
    /\ UNCHANGED <<notDownload, target_count, max_attempts, backoff, saved, idx, returned, dl_pc>>

\* the data fetched is no valid image (lines 52-55): the failure is counted
\* and the wait is backoff
FetchInvalid ==
    /\ dl_pc = "loop"
    /\ KeepsGoing
    /\ attempts' = attempts + 1
    /\ waited' = backoff
    /\ UNCHANGED <<notDownload, target_count, max_attempts, backoff, saved, idx, returned, dl_pc>>

\* a valid image is fetched and saved (lines 56-64): the failure count is reset
FetchSaves ==
    /\ dl_pc = "loop"
    /\ KeepsGoing
    /\ saved' = saved + 1
    /\ idx' = idx + 1
    /\ attempts' = 0
    /\ waited' = 0
    /\ UNCHANGED <<notDownload, target_count, max_attempts, backoff, returned, dl_pc>>

\* save_image raises (line 58): an OSError is no RequestException, so it
\* leaves download()
SaveFails ==
    /\ dl_pc = "loop"
    /\ KeepsGoing
    /\ dl_pc' = "raised"
    /\ UNCHANGED <<notDownload, target_count, max_attempts, backoff, saved, attempts, idx,
                   waited, returned>>

\* the loop condition is false: return saved (line 70)
DownloadReturns ==
    /\ dl_pc = "loop"
    /\ ~KeepsGoing
    /\ returned' = saved
    /\ dl_pc' = "returned"
    /\ UNCHANGED <<notDownload, target_count, max_attempts, backoff, saved, attempts, idx, waited>>

\* the backoff arguments tried; the default is 1.0 (line 43)
Backoffs == {1, 2}

\* download(target_count, out_dir, start_index, max_attempts, backoff) is called
StartDownload(target, start_index, tries, delay) ==
    /\ target_count = target
    /\ max_attempts = tries
    /\ backoff = delay
    /\ saved = 0
    /\ attempts = 0
    /\ idx = start_index
    /\ waited = 0
    /\ returned = NotReturned
    /\ dl_pc = "loop"

InitDownload ==
    /\ \E target \in 0..MaxTarget, start_index \in {0, MaxTarget},
          tries \in {1, 2, DEFAULT_MAX_ATTEMPTS}, delay \in Backoffs :
            StartDownload(target, start_index, tries, delay)
    /\ SplitterIdle /\ AppIdle /\ BulkIdle /\ PredictIdle

NextDownload ==
    \/ FetchFails
    \/ FetchInvalid
    \/ FetchSaves
    \/ SaveFails
    \/ DownloadReturns

SpecDownload == InitDownload /\ [][NextDownload]_vars

\* download() keeps running: every fetch ends (it has a timeout, line 22) and
\* every wait is finite
FairSpecDownload == SpecDownload /\ WF_vars(NextDownload)

(***************************************************************************)
(* What the three programs make of one model output: predict_image of       *)
(* app.py (lines 100-119), test_prediction.py (lines 30-41) and             *)
(* evaluate_model.py (lines 35-40).  A probability is a whole number of     *)
(* steps of 1/ProbSteps, so 1.0 is ProbSteps and x > 0.5 is 2x > ProbSteps. *)
(***************************************************************************)
\* 1.0
One == ProbSteps

\* x > 0.5
AboveHalf(x) == 2 * x > One

\* x >= 0.5
AtLeastHalf(x) == 2 * x >= One

\* the variables a step of this part leaves alone
notPredict == <<splitterVars, appVars, bulkVars, downloadVars>>

\* predict_image with >= for > at line 108
PredictResultAtLeast(p) ==
    LET fake_probability == p
        real_probability == One - fake_probability
        is_fake == AtLeastHalf(fake_probability)
    IN  [label |-> IF is_fake THEN "FAKE" ELSE "REAL",
         confidence |-> Max(fake_probability, real_probability),
         fake_prob |-> fake_probability,
         real_prob |-> real_probability,
         raw_prediction |-> p]

\* what predict_image returns for model output p (lines 104-119):
\* fake_probability = float(prediction), real = 1.0 - fake, FAKE above 0.5
PredictResult(p) ==
    LET fake_probability == p
        real_probability == One - fake_probability
        is_fake == AboveHalf(fake_probability)
    IN  [label |-> IF is_fake THEN "FAKE" ELSE "REAL",
         confidence |-> Max(fake_probability, real_probability),
         fake_prob |-> fake_probability,
         real_prob |-> real_probability,
         raw_prediction |-> p]

\* predict_image of app.py has the model's output and builds its result
predict_image ==
    /\ api_result = NoResult
    /\ api_result' = PredictResult(prediction)
    /\ UNCHANGED <<notPredict, prediction, verdict, predicted_class>>

\* test_prediction.py, lines 34-41: above 0.5 the verdict is REAL with
\* confidence prediction * 100, else FAKE with (1 - prediction) * 100
TestPredictionVerdict ==
    /\ verdict = NoVerdict
    /\ verdict' = IF AboveHalf(prediction)
                  THEN [verdict |-> "REAL", confidence |-> prediction * 100]
                  ELSE [verdict |-> "FAKE", confidence |-> (One - prediction) * 100]
    /\ UNCHANGED <<notPredict, prediction, api_result, predicted_class>>

\* val_gen.class_indices of flow_from_directory: the class directories in
\* alphabetical order, fake is 0 and real is 1 (line 40)
class_labels == <<"fake", "real">>

\* evaluate_model.py, line 36: (predictions > 0.5).astype(int)
EvaluateClass ==
    /\ predicted_class = NoClass
    /\ predicted_class' = IF AboveHalf(prediction) THEN 1 ELSE 0
    /\ UNCHANGED <<notPredict, prediction, api_result, verdict>>

\* the model puts out any probability from 0.0 to 1.0
InitPredict ==
    /\ prediction \in 0..ProbSteps
    /\ api_result = NoResult
    /\ verdict = NoVerdict
    /\ predicted_class = NoClass
    /\ SplitterIdle /\ AppIdle /\ BulkIdle /\ DownloadIdle

NextPredict ==
    \/ predict_image
    \/ TestPredictionVerdict
    \/ EvaluateClass

\* one model output, read by the three programs
SpecPredict == InitPredict /\ [][NextPredict]_vars

(***************************************************************************)
(* Properties.                                                             *)
(***************************************************************************)
\* the run is past STEP 5: the six lists are complete
AfterSplit ==
    pc \in {"copy", "verify", "verify_seed", "verify_val", "save", "dump", "summary", "done"}

RecognisedExtensions == {"jpg", "jpeg", "png"}

\* the paths of the recognised images of source directory d, read off the disk
InputImages(d) ==
    IF d \in present
    THEN {[dir |-> d, name |-> e.name] : e \in {x \in disk[d] : x.name.ext \in RecognisedExtensions}}
    ELSE {}

SourceDir(label) == IF label = "fake" THEN FAKE_DIR ELSE REAL_DIR

\* the three lists of a class
Lists(label) ==
    IF label = "fake"
    THEN [seed |-> seed_fakes, validation |-> val_fakes, pool |-> pool_fakes]
    ELSE [seed |-> seed_reals, validation |-> val_reals, pool |-> pool_reals]

NoRepeats(list) == Cardinality(Range(list)) = Len(list)

\* C1: once the split is made, for each class the seed, validation and pool
\* lists are pairwise disjoint, hold no file twice, and together are exactly
\* the recognised images of that class's source directory, so their lengths
\* add up to the length of the input list.
C1_Partition ==
    AfterSplit =>
        \A label \in Labels :
            LET l == Lists(label)
            IN  /\ NoRepeats(l.seed) /\ NoRepeats(l.validation) /\ NoRepeats(l.pool)
                /\ Range(l.seed) \cap Range(l.validation) = {}
                /\ Range(l.seed) \cap Range(l.pool) = {}
                /\ Range(l.validation) \cap Range(l.pool) = {}
                /\ Range(l.seed) \cup Range(l.validation) \cup Range(l.pool)
                       = InputImages(SourceDir(label))
                /\ Len(l.seed) + Len(l.validation) + Len(l.pool)
                       = Cardinality(InputImages(SourceDir(label)))

\* a completed split in which all six lists are non-empty
C1_Witness ==
    /\ AfterSplit
    /\ \A label \in Labels :
        Len(Lists(label).seed) > 0 /\ Len(Lists(label).validation) > 0
        /\ Len(Lists(label).pool) > 0

\* the destination directories held no file when the run started
CleanStart == \A d \in DestDirs : start_disk[d] = {}

\* the splits in whose directory of class label a file of that name lies
SplitsHolding(label, name) == {sp \in Splits : name \in Names(disk[<<sp, label>>])}

\* every input file lies, with its content, in exactly one split directory of
\* its class, and the re-scan of STEP 7 counted as many files as there are
\* inputs
AllAccountedFor ==
    /\ \A label \in Labels : \A f \in InputImages(SourceDir(label)) :
            /\ Cardinality(SplitsHolding(label, f.name)) = 1
            /\ \E sp \in Splits :
                    [name |-> f.name, data |-> DataOf(disk, f)] \in disk[<<sp, label>>]
    /\ GrandTotal(verification)
           = Cardinality(InputImages(FAKE_DIR)) + Cardinality(InputImages(REAL_DIR))

\* C2 as stated: after any completed run every input file lies in exactly
\* one split directory and the re-scan total equals the number of inputs.
C2_Original == pc = "done" => AllAccountedFor

\* C2, amended: after a completed run that started with no file in the six
\* destination directories, every input file lies in exactly one split
\* directory, under its own class, and the STEP 7 re-scan total equals the
\* number of input files.
C2_AccountedFromClean == (pc = "done" /\ CleanStart) => AllAccountedFor

\* a completed run from empty destinations that filled all six directories
C2_Witness ==
    /\ pc = "done"
    /\ CleanStart
    /\ \A d \in DestDirs : disk[d] # {}

\* C3: a second run of the script on the same source directories, whatever
\* order the directory scans list the files in, makes the same six lists as
\* the run before it.
C3_SameAssignment ==
    (run > 1 /\ prev # << >> /\ AfterSplit) => Assignment = prev[1]

\* a second run that finished after a first run that had made its split
C3_Witness ==
    /\ run = 2
    /\ prev # << >>
    /\ pc = "done"
    /\ Len(fake_images) >= NUM_QUARTILES + 1
    /\ Len(real_images) >= 3


\* the fake images of the quartile at position i
Band(i) == Slice(fake_images, FAKE_QUARTILES[i][1], FAKE_QUARTILES[i][2])

\* the files of quartile i that are in the seed list
SeedFromQuartile(i) == Cardinality(Range(Band(i)) \cap Range(seed_fakes))

\* the fake halves of the configured sizes (the real half is rounded down)
SeedFakeCount == cfg.seed_size - (cfg.seed_size \div 2)
ValFakeCount == cfg.validation_size - (cfg.validation_size \div 2)

\* the seed quota of quartile i: the share, and the remainder for the last
SeedQuota(i) ==
    (SeedFakeCount \div NUM_QUARTILES)
    + (IF i = NUM_QUARTILES THEN SeedFakeCount % NUM_QUARTILES ELSE 0)

ValQuota(i) ==
    (ValFakeCount \div NUM_QUARTILES)
    + (IF i = NUM_QUARTILES THEN ValFakeCount % NUM_QUARTILES ELSE 0)

\* C4 as stated: every quartile contributes exactly its seed quota.
C4_Original ==
    AfterSplit => \A i \in 1..NUM_QUARTILES : SeedFromQuartile(i) = SeedQuota(i)

\* C4, amended: every quartile contributes to seed its quota (the share
\* seed_fake_count // NUM_QUARTILES, plus seed_fake_count % NUM_QUARTILES for
\* the final quartile) or, when it holds fewer files than that, all its files.
C4_QuotaOrAll ==
    AfterSplit =>
        \A i \in 1..NUM_QUARTILES : SeedFromQuartile(i) = Min(SeedQuota(i), Len(Band(i)))

\* a split in which every quartile could fill its quota and the last
\* quartile's quota holds a remainder
C4_Witness ==
    /\ AfterSplit
    /\ \A i \in 1..NUM_QUARTILES : Len(Band(i)) >= SeedQuota(i) /\ SeedFromQuartile(i) > 0
    /\ SeedQuota(NUM_QUARTILES) > SeedQuota(1)

\* the sizes of seed and validation are the configured ones for both classes
ConfiguredSizes ==
    /\ Len(seed_reals) = cfg.seed_size \div 2
    /\ Len(seed_fakes) = cfg.seed_size - (cfg.seed_size \div 2)
    /\ Len(seed_reals) + Len(seed_fakes) = cfg.seed_size
    /\ Len(val_reals) = cfg.validation_size \div 2
    /\ Len(val_fakes) = cfg.validation_size - (cfg.validation_size \div 2)
    /\ Len(val_reals) + Len(val_fakes) = cfg.validation_size

\* the corpus is large enough for the quotas: the real list for both real
\* counts, every quartile for its seed and validation quotas
EnoughImages ==
    /\ Len(real_images) >= (cfg.seed_size \div 2) + (cfg.validation_size \div 2)
    /\ \A i \in 1..NUM_QUARTILES : Len(Band(i)) >= SeedQuota(i) + ValQuota(i)

\* C5 as stated: on any non-empty sources the seed and validation sizes are
\* the configured ones.
C5_Original == AfterSplit => ConfiguredSizes

\* C5, amended: when the real list has at least SEED_SIZE_TOTAL // 2 +
\* VALIDATION_SIZE_TOTAL // 2 files and every quartile has at least its seed
\* quota plus its validation quota, the real seed count is SEED_SIZE_TOTAL // 2,
\* the fake seed count is SEED_SIZE_TOTAL - SEED_SIZE_TOTAL // 2, and the same
\* holds for validation, so the totals match the configured sizes exactly.
C5_SizesWhenEnough == (AfterSplit /\ EnoughImages) => ConfiguredSizes

\* a split of a large enough corpus under an odd seed size
C5_Witness ==
    /\ AfterSplit
    /\ EnoughImages
    /\ cfg.seed_size % 2 = 1

\* the run is past the adjustment of the quartile table
AfterQuartiles ==
    AfterSplit \/ pc \in {"sizes", "setup", "split_fake", "split_real"}

\* C6: for the n >= 1 fake images of a run, the quartile table holds
\* NUM_QUARTILES ranges [start, end) that begin at 0, follow one another
\* without gap or overlap and end at n; when n is not the expected count the
\* first NUM_QUARTILES - 1 bands have n // NUM_QUARTILES files each and the
\* last has those plus the remainder.
C6_Bands ==
    AfterQuartiles =>
        LET n == Len(fake_images)
            q == FAKE_QUARTILES
        IN  /\ n >= 1
            /\ Len(q) = NUM_QUARTILES
            /\ q[1][1] = 0
            /\ q[NUM_QUARTILES][2] = n
            /\ \A i \in 1..NUM_QUARTILES : q[i][1] <= q[i][2]
            /\ \A i \in 1..(NUM_QUARTILES - 1) : q[i][2] = q[i + 1][1]
            /\ n # cfg.total_fake =>
                /\ \A i \in 1..(NUM_QUARTILES - 1) : q[i][2] - q[i][1] = n \div NUM_QUARTILES
                /\ q[NUM_QUARTILES][2] - q[NUM_QUARTILES][1]
                       = (n \div NUM_QUARTILES) + (n % NUM_QUARTILES)

\* a recalculated table whose last band holds a remainder
C6_Witness ==
    /\ AfterQuartiles
    /\ Len(fake_images) # cfg.total_fake
    /\ Len(fake_images) > NUM_QUARTILES
    /\ Len(fake_images) % NUM_QUARTILES # 0

\* the worked example: 40 real, 40 fake, 8 seed, 4 validation
IsExample ==
    /\ cfg.seed_size = 8
    /\ cfg.validation_size = 4
    /\ Cardinality(InputImages(FAKE_DIR)) = 40
    /\ Cardinality(InputImages(REAL_DIR)) = 40

\* C7: in the worked example the four quartiles hold 10 fakes each, seed is
\* 4 real and 4 fake with one fake from each quartile, validation is 2 real
\* and 2 fake, pool is 34 real and 34 fake; a completed run into empty
\* destinations finds the same numbers on disk.
C7_Example ==
    (IsExample /\ AfterSplit) =>
        /\ \A i \in 1..NUM_QUARTILES : Len(Band(i)) = 10 /\ SeedFromQuartile(i) = 1
        /\ Len(seed_reals) = 4 /\ Len(seed_fakes) = 4
        /\ Len(val_reals) = 2 /\ Len(val_fakes) = 2
        /\ Len(pool_reals) = 34 /\ Len(pool_fakes) = 34
        /\ (pc = "done" /\ CleanStart) =>
            /\ verification["seed"] = [real |-> 4, fake |-> 4, total |-> 8]
            /\ verification["validation"] = [real |-> 2, fake |-> 2, total |-> 4]
            /\ verification["pool"] = [real |-> 34, fake |-> 34, total |-> 68]

\* the example run has completed from empty destinations
C7_Witness == IsExample /\ pc = "done" /\ CleanStart

\* a source directory is missing or holds no recognised image
EmptySource == InputImages(FAKE_DIR) = {} \/ InputImages(REAL_DIR) = {}

\* C8: when a source directory is missing or holds no recognised image, the
\* run never gets past STEP 1: it ends reported as the ValueError of line 125
\* (or as an interrupt that came before the check), no copy_files call has
\* copied anything, every destination directory holds what it held at the
\* start, and the metadata file has not been opened.
C8_EmptySourceAborts ==
    EmptySource =>
        /\ pc \in {"start", "aborted"}
        /\ pc = "aborted" => outcome \in {"ValueError", "KeyboardInterrupt"}
        /\ batch = 1 /\ pos = 0
        /\ \A d \in DestDirs : disk[d] = start_disk[d]
        /\ opens = 0 /\ writes = 0

\* a run aborted with the ValueError on a fake directory that exists and
\* holds a file, but no recognised image
C8_Witness ==
    /\ pc = "aborted"
    /\ outcome = "ValueError"
    /\ FAKE_DIR \in present
    /\ disk[FAKE_DIR] # {}
    /\ InputImages(FAKE_DIR) = {}
    /\ InputImages(REAL_DIR) # {}

\* the files copy_files has copied so far lie in their destination under
\* their own name and with their content
CopiedSoFar ==
    \A b \in 1..Len(CopyBatches) : \A k \in 1..Len(CopyBatches[b].files) :
        (b < batch \/ (b = batch /\ k <= pos)) =>
            LET f == CopyBatches[b].files[k]
            IN  [name |-> f.name, data |-> DataOf(disk, f)] \in disk[CopyBatches[b].dest]

\* C9: in every state of a run, an aborted one included, the two source
\* directories hold exactly the entries they held when the run started, every
\* file copied so far lies in its destination under its original name, and a
\* destination directory has gained no name that is not a name of an image of
\* its class.
C9_SourcesUntouched ==
    /\ \A d \in {FAKE_DIR, REAL_DIR} : disk[d] = start_disk[d]
    /\ CopiedSoFar
    /\ \A sp \in Splits : \A label \in Labels :
            Names(disk[<<sp, label>>]) \ Names(start_disk[<<sp, label>>])
                \subseteq {f.name : f \in InputImages(SourceDir(label))}

\* a run aborted by an I/O error after at least two batches were copied
C9_Witness ==
    /\ pc = "aborted"
    /\ outcome = "Exception"
    /\ batch >= 3
    /\ pos >= 1

\* every file of the six lists lies in its destination
AllCopied ==
    /\ batch = Len(CopyBatches)
    /\ pos = Len(CopyBatches[batch].files)
    /\ \A b \in 1..Len(CopyBatches) : \A k \in 1..Len(CopyBatches[b].files) :
            LET f == CopyBatches[b].files[k]
            IN  [name |-> f.name, data |-> DataOf(disk, f)] \in disk[CopyBatches[b].dest]

\* STEPs 7, 8 and 9 have run
Verified ==
    /\ verification = Rescan(disk)
    /\ Len(stratification.seed) = NUM_QUARTILES
    /\ Len(stratification.validation) = NUM_QUARTILES

\* the metadata file is opened and written at most once in a run, and only
\* after the six batches and the verification steps
WrittenOnceAtTheEnd ==
    /\ opens <= 1
    /\ writes <= opens
    /\ opens > 0 => (AllCopied /\ Verified)

\* C10 as stated: written at most once, after copying and verification, and
\* a run that aborts has not touched the metadata file.
C10_Original ==
    /\ WrittenOnceAtTheEnd
    /\ pc = "aborted" => opens = 0

\* C10, amended: split_metadata.json is written at most once per run, and
\* only after all six copy batches and the verification steps have finished;
\* a run that aborts on an empty source, on a copy I/O error, or on an
\* interrupt that comes before STEP 10 has not touched the metadata file (an
\* interrupt during or after STEP 10 leaves the opened or written file).
C10_MetadataAtTheEnd ==
    /\ WrittenOnceAtTheEnd
    /\ (pc = "aborted" /\ outcome \in {"ValueError", "Exception"}) => opens = 0
    /\ (pc = "aborted" /\ ~(AllCopied /\ Verified)) => opens = 0

\* a completed run that wrote its metadata
C10_Witness ==
    /\ pc = "done"
    /\ opens = 1
    /\ writes = 1
    /\ meta.state = "written"


\* the metadata file this run completed
Produced == meta.content[1]

\* C11: whenever a run has produced the metadata file, for each split its
\* output.<split>.total is the number of files that lie in the split's real/
\* and fake/ directories (nothing changes them between the re-scan and the end
\* of the run), output.<split>.real and .fake are the two directories' counts,
\* and total = real + fake.
C11_TotalsAreDiskCounts ==
    writes = 1 =>
        /\ meta.state = "written"
        /\ \A s \in Splits :
            /\ Produced.output[s].real = Cardinality(disk[<<s, "real">>])
            /\ Produced.output[s].fake = Cardinality(disk[<<s, "fake">>])
            /\ Produced.output[s].total
                 = Cardinality(disk[<<s, "real">>]) + Cardinality(disk[<<s, "fake">>])
            /\ Produced.output[s].total = Produced.output[s].real + Produced.output[s].fake

\* a completed run whose destinations hold more files than the run copied
C11_Witness ==
    /\ pc = "done"
    /\ writes = 1
    /\ warned
    /\ Produced.output["pool"].total > Len(pool_reals) + Len(pool_fakes)


\* the names copy_files has written into dest so far
CopiedNames(dest) ==
    UNION {{CopyBatches[b].files[k].name :
                k \in 1..(IF b < batch THEN Len(CopyBatches[b].files) ELSE pos)} :
           b \in {x \in 1..batch : CopyBatches[x].dest = dest}}

\* apart from the files copied so far, the destinations are as the run found them
NothingElseCopied ==
    \A dest \in DestDirs :
        {e \in disk[dest] : e.name \notin CopiedNames(dest)}
            = {e \in start_disk[dest] : e.name \notin CopiedNames(dest)}

\* the run was ended by an I/O error of shutil.copy2
CopyErrorAbort == pc = "aborted" /\ outcome = "Exception"

\* C12: in a run that an I/O error on one file has aborted, the failing file
\* and every later file of its batch and of the later batches have not been
\* copied (the destinations hold what they held at the start plus the files
\* copied before the error), the files copied before the error are still in
\* place with their content, and the run has neither opened nor written the
\* metadata file.
C12_CopyErrorAborts ==
    CopyErrorAbort =>
        /\ pos < Len(CopyBatches[batch].files)
        /\ NothingElseCopied
        /\ CopiedSoFar
        /\ opens = 0 /\ writes = 0

\* an I/O error in the second batch of a run that started from empty
\* destinations: the first batch and part of the second are on disk
C12_Witness ==
    /\ CopyErrorAbort
    /\ CleanStart
    /\ batch = 2
    /\ pos >= 1
    /\ disk[<<"seed", "real">>] # {}
    /\ Cardinality(disk[<<"seed", "fake">>]) = pos
    /\ disk[<<"pool", "fake">>] = {}


\* a step that interrupts the run during the copy phase
InterruptedWhileCopying ==
    pc = "copy" /\ pc' = "aborted" /\ outcome' = "KeyboardInterrupt"

\* C16: a keyboard interrupt can arrive at every point of the copy phase; it
\* ends the run as reported by the entry point (KeyboardInterrupt), the step
\* changes no file and no directory, the files copied before it stay in place,
\* the run has not touched the metadata file, and the only step an ended
\* process is followed by is the start of a new process.
C16_InterruptDuringCopy ==
    /\ [](pc = "copy" => ENABLED Interrupt)
    /\ [][InterruptedWhileCopying =>
            /\ disk' = disk /\ present' = present /\ meta' = meta
            /\ CopiedSoFar'
            /\ NothingElseCopied'
            /\ opens' = 0 /\ writes' = 0]_vars
    /\ [][pc = "aborted" => (run' = run + 1 /\ pc' = "start" /\ disk' = disk)]_vars

\* a run interrupted in the middle of its second batch
C16_Witness ==
    /\ pc = "aborted"
    /\ outcome = "KeyboardInterrupt"
    /\ batch = 2
    /\ pos >= 1
    /\ pos < Len(CopyBatches[batch].files)
    /\ Cardinality(disk[<<"seed", "real">>]) >= 1
    /\ Cardinality(disk[<<"seed", "fake">>]) = pos
    /\ opens = 0

\* the run is at one of the verification passes, STEPs 7, 8 and 9
Verifying == pc \in {"verify", "verify_seed", "verify_val"}

\* a quartile whose share of the seed directory is not its quota
SeedShareOff ==
    /\ Len(stratification.seed) = NUM_QUARTILES
    /\ \E q \in 1..NUM_QUARTILES : stratification.seed[q] # SeedQuota(q)

\* C17: a verification pass changes no file, directory or metadata; it ends
\* the run only when the user interrupts it, whatever the counts are, and
\* otherwise goes on to the next step; a run that completes has written the
\* metadata, also when the totals did not match (warned) or a quartile's share
\* is not its quota.
C17_VerificationReportsOnly ==
    /\ [][Verifying =>
            /\ disk' = disk /\ present' = present /\ meta' = meta
            /\ (pc' = "aborted" => outcome' = "KeyboardInterrupt")
            /\ (pc' # "aborted" =>
                    pc' = CASE pc = "verify" -> "verify_seed"
                            [] pc = "verify_seed" -> "verify_val"
                            [] OTHER -> "save")]_vars
    /\ [](Verifying => ENABLED (VerifyResults \/ VerifySeedStratification
                                 \/ VerifyValidationStratification))
    /\ [](pc = "done" => (writes = 1 /\ meta.state = "written"))

\* a completed run whose re-scan total differed from the expected total and
\* whose seed directory is not stratified as configured
C17_Witness ==
    /\ pc = "done"
    /\ warned
    /\ SeedShareOff
    /\ writes = 1


\* C13 as stated: in a server process the model file is deserialized at most
\* once, whatever the interleaving of /api/predict and /api/info requests.
C13_Original == program = "app" => loads <= 1

\* thread t has ended a request that had reached the upload-save step
FinishedUpload(t) == th[t].pc = "finished" /\ th[t].path # 0

\* C14 as stated: once a /api/predict request that reached the save step has
\* finished, the file written for it is not in the upload folder.
C14_Original == \A t \in Threads : FinishedUpload(t) => th[t].path \notin uploads

\* C15 as stated: every request that ends with a 4xx or 5xx status carries a
\* structured JSON error payload, and every request ends with a response.
C15_Original ==
    \A t \in Threads :
        th[t].pc = "finished" =>
            /\ th[t].resp # NoResponse
            /\ th[t].resp.status >= 400 => th[t].resp.body = "json_error"

\* C18 as stated: in each of the three programs a missing model file ends the
\* process before any work; the web server never serves.
C18_Original ==
    model_found = "no" =>
        /\ main_pc = "exited"
        /\ loads = 0
        /\ \A t \in Threads : th[t] = IdleThread

\* C18, amended: in evaluate_model and test_prediction a missing model file
\* is reported and the process ends without loading or predicting anything
\* (evaluate returns, so the status is 0; test_prediction exits with 1).  The
\* web server reports it as a warning and serves; a request handler gets to
\* use the model only when MODEL is loaded, so while the file is missing the
\* requests that need the model are answered with an error.
C18_ScriptsExitServerServes ==
    /\ model_found = "no" =>
        /\ program \in {"evaluate_model", "test_prediction"} =>
                /\ main_pc = "exited"
                /\ loads = 0
                /\ reported = "model_not_found"
                /\ exit_code = IF program = "test_prediction" THEN 1 ELSE 0
        /\ program = "app" =>
                /\ main_pc = "serving"
                /\ reported = "model_not_found_server_will_start"
    /\ \A t \in Threads : th[t].pc = "use" => (MODEL = "loaded" /\ loads >= 1)

\* the server started without the model file and has answered a prediction
\* request, whose upload it had saved, with a JSON error
C18_Witness ==
    /\ program = "app"
    /\ model_found = "no"
    /\ model_file = "missing"
    /\ \E t \in Threads :
        /\ FinishedUpload(t)
        /\ th[t].route = "predict"
        /\ th[t].resp = JsonError(500)


\* the server started without a loaded model, the file is there now, and two
\* first requests have each deserialized it
C13_Witness ==
    /\ program = "app"
    /\ model_file = "valid"
    /\ loads = 2
    /\ \A t \in Threads : th[t].pc = "use"

\* a request answered with a JSON error whose upload is still in the folder
\* because unlinking it failed
C14_Witness ==
    \E t \in Threads :
        /\ FinishedUpload(t)
        /\ th[t].resp = JsonError(500)
        /\ th[t].path \in uploads

\* a request whose upload could not be saved: it ends with Flask's own page
\* for status 500, and the partly written file is in the folder
C15_Witness ==
    \E t \in Threads :
        /\ FinishedUpload(t)
        /\ th[t].resp = FlaskPage(500)
        /\ th[t].path \in uploads


\* the items of the batch that are no blank lines
RealItems == Cardinality({n \in 1..Len(items) : items[n] # "blank"})

\* C19 as stated: in each of the three loops no failure of an item leaves the
\* function; every failure is logged; when the function returns, every item
\* was attempted and the count it returns or reports is the number of items
\* that did not fail.
C19_Original ==
    /\ bulk_pc # "raised"
    /\ logged = failed
    /\ bulk_pc = "returned" =>
            /\ attempted = RealItems
            /\ result = attempted - failed

\* download_from_list has stopped at a line that is no URL, with a download
\* behind it and two lines of the file never attempted
C19_Witness ==
    /\ script = "download_from_list"
    /\ bulk_pc = "raised"
    /\ successful = 1
    /\ Item = "comment"
    /\ Len(items) - done_items >= 3
    /\ logged = 0


\* the bound of the consecutive-failure counter (line 49)
AttemptsBound == max_attempts * target_count

C21_LinearBackoff ==
    [][(FetchFails =>
            (/\ attempts' = attempts + 1
             /\ waited' = backoff * attempts'
             /\ (attempts > 0 /\ waited = backoff * attempts) => waited' - waited = backoff))
       /\ (FetchInvalid => attempts' = attempts + 1)
       /\ (FetchSaves => attempts' = 0)]_vars

\* a save followed by two failed fetches with backoff 2: the second wait is 4
C21_Witness ==
    /\ dl_pc = "loop"
    /\ backoff = 2
    /\ saved >= 1
    /\ attempts = 2
    /\ waited = 4

\* the table FAKE_QUARTILES tiles [0, n): it starts at 0, each band starts
\* where the one before ends, and the last ends at n
CoversExactly(table, n) ==
    /\ table[1][1] = 0
    /\ \A i \in 1..(Len(table) - 1) : table[i][2] = table[i + 1][1]
    /\ table[Len(table)][2] = n
    /\ \A i \in 1..Len(table) : table[i][1] <= table[i][2]

\* the call is past the adjustment of lines 127-139 and uses the table
UsesQuartiles ==
    pc \in {"sizes", "setup", "split_fake", "split_real", "copy", "verify", "verify_seed",
            "verify_val", "save", "dump", "summary", "done"}

\* the fake split of lines 191-237 is over
FakesSplit ==
    pc \in {"split_real", "copy", "verify", "verify_seed", "verify_val", "save", "dump",
            "summary", "done"}

\* C22: in every call of stratified_split_dataset of one process the
\* quartile boundaries used cover exactly [0, len(fake_images)) of that call's
\* fake list, and every fake file of the call is assigned to some split.
C22_Original ==
    /\ UsesQuartiles => CoversExactly(FAKE_QUARTILES, Len(fake_images))
    /\ FakesSplit =>
            Len(seed_fakes) + Len(val_fakes) + Len(pool_fakes) = Len(fake_images)

\* a second call finds TOTAL_FAKE_IMAGES fakes after a first call that found
\* fewer, and has split them leaving some fake file in no split
C22_Witness ==
    /\ run = 2
    /\ FakesSplit
    /\ Len(fake_images) = cfg.total_fake
    /\ ~CoversExactly(FAKE_QUARTILES, Len(fake_images))
    /\ Len(seed_fakes) + Len(val_fakes) + Len(pool_fakes) < Len(fake_images)

\* the file names each destination directory holds once the six lists of
\* assignment a are copied into empty directories
TreeOf(a) ==
    [d \in DestDirs |->
        {f.name : f \in Range(CASE d = <<"seed", "real">> -> a.seed_real
                                [] d = <<"seed", "fake">> -> a.seed_fake
                                [] d = <<"validation", "real">> -> a.val_real
                                [] d = <<"validation", "fake">> -> a.val_fake
                                [] d = <<"pool", "real">> -> a.pool_real
                                [] OTHER -> a.pool_fake)}]

\* the file names the six destination directories of file system d hold
TreeNames(d) == [dir \in DestDirs |-> Names(d[dir])]

\* C23: runs of the script that begin on empty destinations and leave the
\* sources alone: a single complete run leaves in each destination directory
\* exactly the names of its list, and a later run that completes, after
\* earlier runs that completed or stopped part-way, leaves exactly the same
\* names: it makes the lists the run before it made, removes no name that
\* was there, and ends with the names of its lists and no other.
C23_RerunIdempotent ==
    /\ pc = "done" => TreeNames(disk) = TreeOf(Assignment)
    /\ (run > 1 /\ pc = "done" /\ prev # << >>) => TreeOf(Assignment) = TreeOf(prev[1])
    /\ run > 1 => \A d \in DestDirs : Names(start_disk[d]) \subseteq Names(disk[d])

\* a second run completed after a first run that had stopped part-way: it
\* found files in the destinations and added the missing ones
C23_Witness ==
    /\ run = 2
    /\ pc = "done"
    /\ \E d \in DestDirs : start_disk[d] # {}
    /\ \E d \in DestDirs : Names(start_disk[d]) # Names(disk[d])

\* a second run completed after a complete first run and changed no name
C23_WitnessComplete ==
    /\ run = 2
    /\ pc = "done"
    /\ \A d \in DestDirs : start_disk[d] # {}
    /\ TreeNames(start_disk) = TreeNames(disk)

\* C24: for every model output, the label predict_image of the web API
\* returns is the verdict test_prediction.py prints for the same output.
C24_Original ==
    (api_result # NoResult /\ verdict # NoVerdict) => api_result.label = verdict.verdict

\* the same output above one half read by both programs: the API says FAKE,
\* the script says REAL, and evaluate_model.py counts it as class real
C24_Witness ==
    /\ AboveHalf(prediction)
    /\ api_result.label = "FAKE"
    /\ verdict.verdict = "REAL"
    /\ predicted_class # NoClass
    /\ class_labels[predicted_class + 1] = "real"

RECURSIVE TotalOf(_)
TotalOf(q) == IF q = << >> THEN 0 ELSE q[1].total + TotalOf(Tail(q))

\* C26: in every metadata record a run of the splitter writes, each entry of
\* quartiles has seed + validation + pool = total, and the total fields of
\* all entries add up to input.fake_images.
C26_QuartileEntriesAddUp ==
    writes = 1 =>
        /\ \A k \in 1..Len(Produced.quartiles) :
            LET e == Produced.quartiles[k]
            IN  e.seed + e.validation + e.pool = e.total
        /\ TotalOf(Produced.quartiles) = Produced.input.fake_images

\* a written record with an entry that has files in all three splits, and
\* a fake count the bands do not divide evenly
C26_Witness ==
    /\ writes = 1
    /\ Produced.input.fake_images % NUM_QUARTILES # 0
    /\ \E k \in 1..Len(Produced.quartiles) :
            LET e == Produced.quartiles[k]
            IN  e.seed > 0 /\ e.validation > 0 /\ e.pool > 0

\* the entries of list q are numbered 1, 2, ..., NUM_QUARTILES
NumberedThrough(q) ==
    /\ Len(q) = NUM_QUARTILES
    /\ \A k \in 1..Len(q) : q[k].quartile = k

\* C27 as stated: for every non-empty fake input the quartiles array of the
\* written metadata has exactly NUM_QUARTILES entries numbered
\* 1..NUM_QUARTILES.
C27_Original ==
    (writes = 1 /\ Produced.input.fake_images > 0) => NumberedThrough(Produced.quartiles)

\* C27, amended: for every fake input of at least NUM_QUARTILES images the
\* quartiles array of the written metadata has exactly NUM_QUARTILES entries,
\* numbered 1..NUM_QUARTILES; with fewer images the first bands are empty
\* and skipped, and the array has the one entry of the last band, numbered
\* NUM_QUARTILES.
C27_EntriesPerNonEmptyBand ==
    writes = 1 =>
        IF Produced.input.fake_images >= NUM_QUARTILES
        THEN NumberedThrough(Produced.quartiles)
        ELSE /\ Len(Produced.quartiles) = 1
             /\ Produced.quartiles[1].quartile = NUM_QUARTILES
             /\ Produced.quartiles[1].total = Produced.input.fake_images

\* a written record for exactly NUM_QUARTILES fake images: four entries of
\* one image each
C27_Witness ==
    /\ writes = 1
    /\ Produced.input.fake_images = NUM_QUARTILES
    /\ NumberedThrough(Produced.quartiles)
    /\ \A k \in 1..NUM_QUARTILES : Produced.quartiles[k].total = 1

\* a written record for fewer fake images than bands: one entry
C27_WitnessFew ==
    /\ writes = 1
    /\ Produced.input.fake_images = NUM_QUARTILES - 1
    /\ Len(Produced.quartiles) = 1

\* thread t takes a request of route r in this step and answers it at once
AnswersAtOnce(t, r) ==
    /\ th[t].pc = "idle"
    /\ th'[t].pc = "finished"
    /\ th'[t].route = r

\* C28: a GET /api/health changes nothing of the model: MODEL, the number of
\* loads and the model file are as before, no other request is touched, and
\* model_loaded is true exactly when a load has succeeded before, at start-up
\* or in a /api/predict or /api/info request.
C28_HealthReadsOnly ==
    [][\A t \in Threads :
        AnswersAtOnce(t, "health") =>
            /\ MODEL' = MODEL
            /\ loads' = loads
            /\ model_file' = model_file
            /\ \A u \in Threads \ {t} : th'[u] = th[u]
            /\ th'[t].resp.status = 200
            /\ th'[t].resp.model_loaded = (loads > 0)]_vars

\* two health answers not yet sent: one given before the model was loaded,
\* with the model file in place, and one given after a request loaded it
C28_Witness ==
    /\ loads = 1
    /\ reported # "model_loaded"
    /\ \E t, u \in Threads :
        /\ th[t].route = "health" /\ th[t].pc = "finished"
        /\ th[u].route = "health" /\ th[u].pc = "finished"
        /\ th[t].resp.model_exists
        /\ ~th[t].resp.model_loaded
        /\ th[u].resp.model_loaded

\* the bodies api_predict turns away at lines 132-140
BadBodies ==
    {body \in PredictBodies :
        /\ body.kind # "too_large"
        /\ \/ body.kind = "no_file"
           \/ body.filename = [base |-> "", dot |-> FALSE, ext |-> ""]
           \/ ~(body.filename.dot /\ Lower(body.filename.ext) \in ALLOWED_EXTENSIONS)}

\* C29: a /api/predict request with no file part, an empty file name or an
\* extension outside ALLOWED_EXTENSIONS is answered 400, and a request answered
\* 400 is answered at once: nothing is written to the upload folder, no upload
\* name is taken, and the model is not loaded.
C29_RejectedWithoutEffect ==
    [][/\ \A body \in BadBodies : Rejection(body) = JsonError(400)
       /\ \A t \in Threads :
            (th'[t] # th[t] /\ th'[t].resp.status = 400) =>
                /\ AnswersAtOnce(t, "predict")
                /\ th'[t].path = 0
                /\ uploads' = uploads
                /\ clock' = clock
                /\ MODEL' = MODEL
                /\ loads' = loads]_vars

\* a request turned away with 400 while the model file is in place and not
\* loaded: the upload folder is empty and no upload name was ever taken
C29_Witness ==
    /\ model_file = "valid"
    /\ MODEL = "None"
    /\ uploads = {}
    /\ clock = 0
    /\ \E t \in Threads :
        /\ th[t].pc = "finished"
        /\ th[t].route = "predict"
        /\ th[t].resp = JsonError(400)

\* thread t is in load_model and leaves it with an exception in this step
LoadFails(t) ==
    /\ th[t].pc \in {"load", "deserialize"}
    /\ th'[t].pc = "except"

\* C30: MODEL only moves from None to loaded: a load that fails, on a missing
\* file or in deserialization, at start-up or in a request, leaves it as it
\* was, a request that calls load_model while it is None tries the load
\* again, and once it is loaded no step sets it back to None.
C30_ModelMonotone ==
    [][/\ MODEL = "loaded" => MODEL' = "loaded"
       /\ MODEL' # MODEL => (MODEL' = "loaded" /\ model_file = "valid")
       /\ \A t \in Threads : LoadFails(t) => (MODEL' = MODEL /\ loads' = loads)
       /\ (main_pc = "load_at_start" /\ model_file # "valid") => MODEL' = "None"
       /\ \A t \in Threads :
            (th[t].pc = "load" /\ th'[t].pc # "load") =>
                IF MODEL = "None"
                THEN th'[t].pc = (IF model_file = "missing" THEN "except" ELSE "deserialize")
                ELSE th'[t].pc = "use"]_vars

\* a request failed to load the model, the file was put right, and a later
\* request loaded it: the first answer was an error, the model is loaded now
C30_Witness ==
    /\ MODEL = "loaded"
    /\ loads = 1
    /\ reported \in {"could_not_load_model", "model_not_found_server_will_start"}
    /\ \E t, u \in Threads :
        /\ th[t].pc = "finished" /\ th[t].route = "info" /\ th[t].resp = JsonError(500)
        /\ th[u].pc = "use"

=============================================================================
